---------------------------- MODULE Spec2Model ----------------------------
(***************************************************************************)
(* JoystickMIDI (src/main.cpp): one HID control (button or axis) is read    *)
(* through the Windows raw-input message pump and translated into MIDI     *)
(* Note / Control-Change messages.                                          *)
(*                                                                         *)
(* The program is single-threaded: WindowProc runs only inside the message *)
(* pumps of PerformCalibration and of the monitoring loop.  One action of   *)
(* the model is one loop iteration (pump included) or one step of main.    *)
(* The messages a pump finds in the thread's queue are an input of the     *)
(* step, drawn from PumpInputs.                                            *)
(***************************************************************************)
EXTENDS Integers, Sequences, FiniteSets, TLC

VARIABLES
    pc,                   \* position of main / PerformCalibration
    disk,                 \* the configuration file offered at start-up
    g_currentConfig,      \* MidiMappingConfig (control.isButton flattened in)
    configLoaded,         \* main's local
    g_quitFlag,
    g_currentValue,
    g_previousValue,
    g_valueChanged,
    g_lastSentMidiValue,
    midiSendInterval,     \* main's local const, line 1836
    midiElapsed,          \* now - g_lastMidiSendTime at the latest clock reading
    sinceEmit,            \* history: the same, from the latest tick that sent
    calib,                \* locals of PerformCalibration and its two lambdas
    calls,                \* history: every SendMidiMessage call of the session
    baseValue,            \* history: g_currentValue when monitoring started
    resources             \* what main holds (input window, MIDI port, preparsed
                          \* data) and, in order, what it did to let go of them

vars == <<pc, disk, g_currentConfig, configLoaded, g_quitFlag, g_currentValue,
          g_previousValue, g_valueChanged, g_lastSentMidiValue,
          midiSendInterval, midiElapsed, sinceEmit, calib, calls, baseValue,
          resources>>

-----------------------------------------------------------------------------
(* Bounds of the model *)

\* at most MaxPump messages are found in the queue by one pump
MaxPump == 2
\* at most MaxCalls SendMidiMessage calls per monitoring session of a button,
\* at most MaxAxisCalls per monitoring session of an axis
MaxCalls == 5
MaxAxisCalls == 4
\* ... and at most MaxFairCalls in the specification with fairness
MaxFairCalls == 3
\* at most MaxHoldIters iterations of one hold loop
MaxHoldIters == 3
\* at most MaxSessionCalls SendMidiMessage calls after a calibration
MaxSessionCalls == 2
\* at most MaxWireCalls SendMidiMessage calls with a hand-edited file
MaxWireCalls == 3
\* at most MaxLoadCalls SendMidiMessage calls after a load that may fail
MaxLoadCalls == 2
\* at most MaxSettleCalls SendMidiMessage calls of an axis in the specification
\* with fairness
MaxSettleCalls == 3
\* at most MaxMappingCalls SendMidiMessage calls per calibrated range
MaxMappingCalls == 2

-----------------------------------------------------------------------------
(* Program constants *)

DEFAULT_MIDI_SEND_INTERVAL_MS == 1
PRE_CAPTURE_DELAY_SECONDS == 5
\* the inner countdown loop: for (ms = 0; ms < 1000; ms += 100)
COUNTDOWN_SLICES == 10
LONG_MAX == 2147483647
LONG_MIN == -2147483647 - 1
\* g_lastSentMidiValue = -1: nothing sent yet
NEVER_SENT == -1
\* sinceEmit before the first message of a session
NoEmit == [emitted |-> FALSE, ms |-> 0]

Max(a, b) == IF a >= b THEN a ELSE b
Min(a, b) == IF a <= b THEN a ELSE b

-----------------------------------------------------------------------------
(* MidiMappingConfig *)

MidiMappingConfig(isButton, type, ch, num, vel, ccOn, ccOff, cmin, cmax, done, rev, ival) ==
    [ isButton |-> isButton, midiMessageType |-> type, midiChannel |-> ch,
      midiNoteOrCCNumber |-> num, midiValueNoteOnVelocity |-> vel,
      midiValueCCOn |-> ccOn, midiValueCCOff |-> ccOff,
      calibrationMinHid |-> cmin, calibrationMaxHid |-> cmax,
      calibrationDone |-> done, reverseAxis |-> rev,
      midiSendIntervalMs |-> ival ]

\* MidiMappingConfig{} : the member initialisers
DefaultConfig ==
    MidiMappingConfig(FALSE, "NONE", 0, 0, 64, 127, 0, 0, 0, FALSE, FALSE,
                      DEFAULT_MIDI_SEND_INTERVAL_MS)

-----------------------------------------------------------------------------
(* The device: what a raw-input report decodes to *)

QuitMsg == [message |-> "WM_QUIT", hDevice |-> "none", status |-> "none", usageValue |-> 0]
\* WM_CLOSE for the message window (any process can post it): DefWindowProc
\* destroys the window, which sends WM_DESTROY to WindowProc
CloseMsg == [message |-> "WM_CLOSE", hDevice |-> "none", status |-> "none", usageValue |-> 0]
InputMsg(dev, status, v) ==
    [message |-> "WM_INPUT", hDevice |-> dev, status |-> status, usageValue |-> v]

\* reports of a device whose selected control is a button: HidP_GetUsages finds
\* the usage, does not find it, or rejects the report; and a report of another
\* device (the registration is by usage page and usage, not by device)
ButtonReports ==
    { InputMsg("selected", s, 0) :
        s \in {"HIDP_STATUS_SUCCESS", "HIDP_STATUS_USAGE_NOT_FOUND",
               "HIDP_STATUS_INCOMPATIBLE_REPORT_ID"} }
    \cup { InputMsg("other", "HIDP_STATUS_SUCCESS", 0) }

\* reports of a device whose selected control is an axis: HidP_GetUsageValue
\* reads one of `values` (a LONG after the cast), or rejects the report; and a
\* report of another device
AxisReports(values) ==
    { InputMsg("selected", "HIDP_STATUS_SUCCESS", v) : v \in values }
    \cup { InputMsg("selected", "HIDP_STATUS_INCOMPATIBLE_REPORT_ID", 0) }
    \cup { InputMsg("other", "HIDP_STATUS_SUCCESS", 0) }

SeqsUpTo(S, n) == UNION { [1..k -> S] : k \in 0..n }

\* what one pump can find in the queue: up to MaxPump messages, in order
PumpInputs(isButton, values) ==
    SeqsUpTo((IF isButton THEN ButtonReports ELSE AxisReports(values))
                \cup {QuitMsg, CloseMsg},
             MaxPump)

\* a variant without the test of raw->header.hDevice
DecodeReportAnyDevice(cfg, m) ==
    IF cfg.isButton THEN
        IF m.status \in {"HIDP_STATUS_SUCCESS", "HIDP_STATUS_BUFFER_TOO_SMALL"}
            THEN [valueReadSuccess |-> TRUE, usageValue |-> 1]
        ELSE IF m.status = "HIDP_STATUS_USAGE_NOT_FOUND"
            THEN [valueReadSuccess |-> TRUE, usageValue |-> 0]
        ELSE [valueReadSuccess |-> FALSE, usageValue |-> 0]
    ELSE
        IF m.status = "HIDP_STATUS_SUCCESS"
            THEN [valueReadSuccess |-> TRUE, usageValue |-> m.usageValue]
        ELSE [valueReadSuccess |-> FALSE, usageValue |-> 0]

\* WindowProc, case WM_INPUT: the decoded value, or "none" when nothing was read
DecodeReport(cfg, m) ==
    IF m.hDevice # "selected" THEN [valueReadSuccess |-> FALSE, usageValue |-> 0]
    ELSE IF cfg.isButton THEN
        IF m.status \in {"HIDP_STATUS_SUCCESS", "HIDP_STATUS_BUFFER_TOO_SMALL"}
            THEN [valueReadSuccess |-> TRUE, usageValue |-> 1]
        ELSE IF m.status = "HIDP_STATUS_USAGE_NOT_FOUND"
            THEN [valueReadSuccess |-> TRUE, usageValue |-> 0]
        ELSE [valueReadSuccess |-> FALSE, usageValue |-> 0]
    ELSE
        IF m.status = "HIDP_STATUS_SUCCESS"
            THEN [valueReadSuccess |-> TRUE, usageValue |-> m.usageValue]
        ELSE [valueReadSuccess |-> FALSE, usageValue |-> 0]

\* a variant that raises the change flag on every decoded report
WindowProcEveryReport(cfg, st, m) ==
    IF m.message = "WM_CLOSE" THEN [st EXCEPT !.quit = TRUE]
    ELSE IF cfg.midiMessageType = "NONE" THEN st
    ELSE LET d == DecodeReport(cfg, m) IN
         IF d.valueReadSuccess
            THEN [st EXCEPT !.cur = d.usageValue, !.changed = TRUE]
            ELSE st

\* WindowProc on one message, st = [cur, changed, quit]: WM_INPUT (lines
\* 231-302), or the WM_DESTROY that follows a WM_CLOSE (lines 304-309)
WindowProc(cfg, st, m) ==
    IF m.message = "WM_CLOSE" THEN [st EXCEPT !.quit = TRUE]
    ELSE IF cfg.midiMessageType = "NONE" THEN st
    ELSE LET d == DecodeReport(cfg, m) IN
         IF d.valueReadSuccess /\ d.usageValue # st.cur
            THEN [st EXCEPT !.cur = d.usageValue, !.changed = TRUE]
            ELSE st

\* while (PeekMessage(..., PM_REMOVE)) { if WM_QUIT { g_quitFlag = true; break; } Dispatch }
RECURSIVE PumpMessages(_, _, _)
PumpMessages(cfg, st, msgs) ==
    IF msgs = <<>> THEN st
    ELSE IF Head(msgs).message = "WM_QUIT" THEN [st EXCEPT !.quit = TRUE]
    ELSE LET after == WindowProc(cfg, st, Head(msgs)) IN
         \* once the window is destroyed its messages are gone from the queue,
         \* and PeekMessage finds the WM_QUIT posted by the WM_DESTROY handler
         IF after.quit THEN after ELSE PumpMessages(cfg, after, Tail(msgs))

PumpState == [cur |-> g_currentValue, changed |-> g_valueChanged, quit |-> g_quitFlag]

\* the states the message pump of one loop iteration can leave behind
PumpOutcomes(values) ==
    { PumpMessages(g_currentConfig, PumpState, msgs) :
        msgs \in PumpInputs(g_currentConfig.isButton, values) }

-----------------------------------------------------------------------------
(* SendMidiMessage *)

\* a variant that takes every invocation for a state change
ButtonStateChangedAlways(cur, prev) == TRUE

\* a variant that reports a change whenever the button is down (level, not edge)
ButtonStateChangedLevel(cur, prev) == cur # 0

\* if (currentlyPressed != wasPressed)
ButtonStateChanged(cur, prev) == (cur # 0) # (prev # 0)

\* a variant without the mask
And7FUnmasked(x) == x

\* x & 0x7F and x & 0x0F on two's-complement ints
And7F(x) == x % 128
And0F(x) == x % 16

NoteMessage(cfg, currentlyPressed) ==
    IF currentlyPressed
        THEN << 144 + And0F(cfg.midiChannel), And7F(cfg.midiNoteOrCCNumber),
                And7F(cfg.midiValueNoteOnVelocity) >>
        ELSE << 128 + And0F(cfg.midiChannel), And7F(cfg.midiNoteOrCCNumber), 0 >>

\* a variant that takes the two CC values the other way round
ButtonCCValueSwapped(cfg, currentlyPressed) ==
    And7F(IF currentlyPressed THEN cfg.midiValueCCOff ELSE cfg.midiValueCCOn)

ButtonCCValue(cfg, currentlyPressed) ==
    And7F(IF currentlyPressed THEN cfg.midiValueCCOn ELSE cfg.midiValueCCOff)

CCMessage(cfg, value) ==
    << 176 + And0F(cfg.midiChannel), And7F(cfg.midiNoteOrCCNumber), value >>

\* a - b on LONG, which is 32 bits wide: a difference outside its range wraps
\* around (signed overflow; the subtraction of two loaded values compiles to a
\* plain sub).  Written so that no intermediate value leaves the 32-bit range.
SubLong(a, b) ==
    IF b >= 0
        THEN IF a >= LONG_MIN + b THEN a - b
             ELSE ((a - LONG_MIN) + (LONG_MAX - b)) + 1
        ELSE IF a <= LONG_MAX + b THEN a - b
             ELSE ((a - LONG_MAX) + (LONG_MIN - b)) - 1

\* a variant whose clamp has min and max exchanged
NormalizedValueClampSwapped(cfg, raw) ==
    LET hidRange == SubLong(cfg.calibrationMaxHid, cfg.calibrationMinHid) IN
    IF hidRange > 0
        THEN LET clampedValue ==
                    Min(cfg.calibrationMinHid, Max(cfg.calibrationMaxHid, raw))
             IN [num |-> SubLong(clampedValue, cfg.calibrationMinHid), den |-> hidRange]
        ELSE [num |-> IF raw >= cfg.calibrationMaxHid THEN 1 ELSE 0, den |-> 1]

\* a variant whose min == max branch compares with > instead of >=
NormalizedValueStrict(cfg, raw) ==
    LET hidRange == SubLong(cfg.calibrationMaxHid, cfg.calibrationMinHid) IN
    IF hidRange > 0
        THEN LET clampedValue ==
                    Max(cfg.calibrationMinHid, Min(cfg.calibrationMaxHid, raw))
             IN [num |-> SubLong(clampedValue, cfg.calibrationMinHid), den |-> hidRange]
        ELSE [num |-> IF raw > cfg.calibrationMaxHid THEN 1 ELSE 0, den |-> 1]

\* normalizedValue as the fraction num/den.  On every range and raw value of this
\* model the double arithmetic of lines 1148-1160 is exact up to the truncation
\* (no quotient falls within an ulp of a half-integer boundary).
NormalizedValue(cfg, raw) ==
    LET hidRange == SubLong(cfg.calibrationMaxHid, cfg.calibrationMinHid) IN
    IF hidRange > 0
        THEN LET clampedValue ==
                    Max(cfg.calibrationMinHid, Min(cfg.calibrationMaxHid, raw))
             IN [num |-> SubLong(clampedValue, cfg.calibrationMinHid), den |-> hidRange]
        ELSE [num |-> IF raw >= cfg.calibrationMaxHid THEN 1 ELSE 0, den |-> 1]

\* a variant that ignores reverseAxis
ApplyReverseIgnored(cfg, n) == n

\* if (cfg.reverseAxis) normalizedValue = 1.0 - normalizedValue
ApplyReverse(cfg, n) ==
    IF cfg.reverseAxis THEN [num |-> n.den - n.num, den |-> n.den] ELSE n

\* a variant that truncates without the + 0.5
ToMidiValueTruncated(n) == Max(0, Min(127, (127 * n.num) \div n.den))

\* static_cast<int>(normalizedValue * 127.0 + 0.5), then clamped to 0..127
ToMidiValue(n) ==
    Max(0, Min(127, (254 * n.num + n.den) \div (2 * n.den)))

AxisMidiValue(cfg, raw) == ToMidiValue(ApplyReverse(cfg, NormalizedValue(cfg, raw)))

\* a variant that forgets calibrationDone
AxisEnabledUncalibrated(cfg) == cfg.midiMessageType = "CC"

\* the axis branch is taken only for a calibrated CC mapping
AxisEnabled(cfg) == cfg.midiMessageType = "CC" /\ cfg.calibrationDone

\* a variant that sends on every evaluation
AxisValueAlways(midiValue, lastSent) == TRUE

\* if (midiValue != g_lastSentMidiValue)
AxisValueChanged(midiValue, lastSent) == midiValue # lastSent

\* a variant that stores the computed axis value whether or not it is emitted
SendMidiMessageTracksSilently(cfg, cur, prev, lastSent, sendOk) ==
    IF cfg.midiMessageType = "NONE" THEN [msgs |-> <<>>, lastSent |-> lastSent]
    ELSE IF cfg.isButton THEN
        LET currentlyPressed == (cur # 0) IN
        IF ButtonStateChanged(cur, prev) THEN
            IF cfg.midiMessageType = "NOTE_ON_OFF"
                THEN [msgs |-> << NoteMessage(cfg, currentlyPressed) >>,
                      lastSent |-> IF sendOk THEN NEVER_SENT ELSE lastSent]
                ELSE [msgs |-> << CCMessage(cfg, ButtonCCValue(cfg, currentlyPressed)) >>,
                      lastSent |-> IF sendOk THEN ButtonCCValue(cfg, currentlyPressed)
                                             ELSE lastSent]
        ELSE [msgs |-> <<>>, lastSent |-> lastSent]
    ELSE
        IF cfg.midiMessageType = "CC" THEN
            LET midiValue == AxisMidiValue(cfg, cur) IN
            IF AxisEnabled(cfg) /\ AxisValueChanged(midiValue, lastSent)
                THEN [msgs |-> << CCMessage(cfg, midiValue) >>,
                      lastSent |-> IF sendOk THEN midiValue ELSE lastSent]
                ELSE [msgs |-> <<>>, lastSent |-> midiValue]
        ELSE [msgs |-> <<>>, lastSent |-> lastSent]

\* a variant that stores the axis value although sendMessage threw
SendMidiMessageStoresUnsent(cfg, cur, prev, lastSent, sendOk) ==
    IF cfg.midiMessageType = "NONE" THEN [msgs |-> <<>>, lastSent |-> lastSent]
    ELSE IF cfg.isButton THEN
        LET currentlyPressed == (cur # 0) IN
        IF ButtonStateChanged(cur, prev) THEN
            IF cfg.midiMessageType = "NOTE_ON_OFF"
                THEN [msgs |-> << NoteMessage(cfg, currentlyPressed) >>,
                      lastSent |-> IF sendOk THEN NEVER_SENT ELSE lastSent]
                ELSE [msgs |-> << CCMessage(cfg, ButtonCCValue(cfg, currentlyPressed)) >>,
                      lastSent |-> IF sendOk THEN ButtonCCValue(cfg, currentlyPressed)
                                             ELSE lastSent]
        ELSE [msgs |-> <<>>, lastSent |-> lastSent]
    ELSE
        IF AxisEnabled(cfg) THEN
            LET midiValue == AxisMidiValue(cfg, cur) IN
            IF AxisValueChanged(midiValue, lastSent)
                THEN [msgs |-> << CCMessage(cfg, midiValue) >>,
                      lastSent |-> midiValue]
                ELSE [msgs |-> <<>>, lastSent |-> lastSent]
        ELSE [msgs |-> <<>>, lastSent |-> lastSent]

\* The call SendMidiMessage(): msgs = the message handed to sendMessage (none or
\* one), lastSent = g_lastSentMidiValue afterwards.  sendOk = FALSE: sendMessage
\* threw, the assignment after it is skipped and the catch swallows the error.
\* The port is open whenever the monitoring loop runs (main returns when openPort
\* fails).
SendMidiMessage(cfg, cur, prev, lastSent, sendOk) ==
    IF cfg.midiMessageType = "NONE" THEN [msgs |-> <<>>, lastSent |-> lastSent]
    ELSE IF cfg.isButton THEN
        LET currentlyPressed == (cur # 0) IN
        IF ButtonStateChanged(cur, prev) THEN
            IF cfg.midiMessageType = "NOTE_ON_OFF"
                THEN [msgs |-> << NoteMessage(cfg, currentlyPressed) >>,
                      lastSent |-> IF sendOk THEN NEVER_SENT ELSE lastSent]
                ELSE [msgs |-> << CCMessage(cfg, ButtonCCValue(cfg, currentlyPressed)) >>,
                      lastSent |-> IF sendOk THEN ButtonCCValue(cfg, currentlyPressed)
                                             ELSE lastSent]
        ELSE [msgs |-> <<>>, lastSent |-> lastSent]
    ELSE
        IF AxisEnabled(cfg) THEN
            LET midiValue == AxisMidiValue(cfg, cur) IN
            IF AxisValueChanged(midiValue, lastSent)
                THEN [msgs |-> << CCMessage(cfg, midiValue) >>,
                      lastSent |-> IF sendOk THEN midiValue ELSE lastSent]
                ELSE [msgs |-> <<>>, lastSent |-> lastSent]
        ELSE [msgs |-> <<>>, lastSent |-> lastSent]

-----------------------------------------------------------------------------
(* Configuration files and interactive set-up *)

\* a JSON object without one of its keys
Without(j, key) == [f \in DOMAIN j \ {key} |-> j[f]]

\* j.value(key, default)
JsonValue(j, key, default) == IF key \in DOMAIN j THEN j[key] ELSE default

\* a variant that keeps the loaded interval as it is
FromJsonUnchecked(j) ==
    MidiMappingConfig(j.isButton, j.midiMessageType, j.midiChannel, j.midiNoteOrCCNumber,
        JsonValue(j, "midiValueNoteOnVelocity", DefaultConfig.midiValueNoteOnVelocity),
        JsonValue(j, "midiValueCCOn", DefaultConfig.midiValueCCOn),
        JsonValue(j, "midiValueCCOff", DefaultConfig.midiValueCCOff),
        JsonValue(j, "calibrationMinHid", 0),
        JsonValue(j, "calibrationMaxHid", 0),
        JsonValue(j, "calibrationDone", FALSE),
        JsonValue(j, "reverseAxis", FALSE),
        JsonValue(j, "midiSendIntervalMs", DEFAULT_MIDI_SEND_INTERVAL_MS))

\* from_json(MidiMappingConfig): the fields are copied as they are, the optional
\* ones with j.value and its default; only a non-positive midiSendIntervalMs is
\* replaced by the default
FromJson(j) ==
    LET ival == JsonValue(j, "midiSendIntervalMs", DEFAULT_MIDI_SEND_INTERVAL_MS) IN
    MidiMappingConfig(j.isButton, j.midiMessageType, j.midiChannel, j.midiNoteOrCCNumber,
        JsonValue(j, "midiValueNoteOnVelocity", DefaultConfig.midiValueNoteOnVelocity),
        JsonValue(j, "midiValueCCOn", DefaultConfig.midiValueCCOn),
        JsonValue(j, "midiValueCCOff", DefaultConfig.midiValueCCOff),
        JsonValue(j, "calibrationMinHid", 0),
        JsonValue(j, "calibrationMaxHid", 0),
        JsonValue(j, "calibrationDone", FALSE),
        JsonValue(j, "reverseAxis", FALSE),
        IF ival <= 0 THEN DEFAULT_MIDI_SEND_INTERVAL_MS ELSE ival)

\* the file found at start-up.  wellFormed: it can be opened, parses, is a JSON
\* object and its values have the types from_json asks for; fault says what is
\* wrong otherwise.  json is the object (only then meaningful).
NoFile        == [present |-> FALSE, wellFormed |-> FALSE, json |-> DefaultConfig,
                  fault |-> "none"]
MalformedFile == [present |-> TRUE,  wellFormed |-> FALSE, json |-> DefaultConfig,
                  fault |-> "parse_error"]
UnreadableFile == [present |-> TRUE, wellFormed |-> FALSE, json |-> DefaultConfig,
                   fault |-> "not_open"]
NotObjectFile == [present |-> TRUE,  wellFormed |-> FALSE, json |-> DefaultConfig,
                  fault |-> "not_object"]
IllTypedFile(j) == [present |-> TRUE, wellFormed |-> FALSE, json |-> j,
                    fault |-> "type_error"]
ConfigFile(j) == [present |-> TRUE,  wellFormed |-> TRUE,  json |-> j, fault |-> "none"]

\* the keys LoadConfiguration tests with contains() and from_json reads with at()
EssentialKeys == {"isButton", "midiMessageType", "midiChannel", "midiNoteOrCCNumber"}

\* a variant that only looks at the keys
LoadSucceedsKeysOnly(d) == EssentialKeys \subseteq DOMAIN d.json

\* LoadConfiguration returns true: every other case returns false, directly
\* (lines 1021-1038) or from one of the catch blocks (lines 1041-1060)
LoadSucceeds(d) == d.wellFormed /\ EssentialKeys \subseteq DOMAIN d.json

\* button mappings on disk, fields within their documented ranges
ButtonFiles ==
    { ConfigFile(MidiMappingConfig(TRUE, "NOTE_ON_OFF", 2, 60, 100, 127, 0, 0, 0, FALSE, FALSE, 10)),
      ConfigFile(MidiMappingConfig(TRUE, "CC", 2, 60, 100, 127, 0, 0, 0, FALSE, FALSE, 10)),
      ConfigFile(MidiMappingConfig(TRUE, "CC", 2, 60, 100, 64, 64, 0, 0, FALSE, FALSE, 10)) }

\* axis mappings on disk: calibrated 0..1000 (plain and reversed, interval 1 and
\* 10), never calibrated, calibrated with min above max, and an axis whose
\* message type is NoteOnOff
AxisFiles ==
    { ConfigFile(MidiMappingConfig(FALSE, "CC", 3, 7, 64, 127, 0, 0, 1000, TRUE, FALSE, 1)),
      ConfigFile(MidiMappingConfig(FALSE, "CC", 3, 7, 64, 127, 0, 0, 1000, TRUE, TRUE, 10)) }
    \cup { ConfigFile(MidiMappingConfig(FALSE, "CC", 3, 7, 64, 127, 0, 0, 1000, FALSE, FALSE, 1)),
           ConfigFile(MidiMappingConfig(FALSE, "CC", 3, 7, 64, 127, 0, 800, 200, TRUE, FALSE, 1)),
           ConfigFile(MidiMappingConfig(FALSE, "NOTE_ON_OFF", 3, 7, 64, 127, 0, 0, 0, FALSE, FALSE, 1)) }

\* what GetUserSelection returns in step 4 for a button: type, channel
\* (1..16, minus 1), note/CC number, velocity, CC on/off values
ButtonChoices ==
    { [DefaultConfig EXCEPT !.isButton = TRUE, !.midiMessageType = type,
                            !.midiChannel = 15, !.midiNoteOrCCNumber = 36,
                            !.midiValueNoteOnVelocity = 127] :
        type \in {"NOTE_ON_OFF", "CC"} }

\* ... and for an axis: always CC, channel, CC number, reverse
AxisChoices ==
    { [DefaultConfig EXCEPT !.isButton = FALSE, !.midiMessageType = "CC",
                            !.midiChannel = 0, !.midiNoteOrCCNumber = 1,
                            !.reverseAxis = rev] :
        rev \in BOOLEAN }

\* the locals of PerformCalibration (i, ms of performCountdown; extremeValue,
\* valueCaptured, initialValue of captureHoldValue; capturedMin, capturedMax),
\* the number of loop iterations of the current hold, the stages whose hold
\* printed the "No input change detected" warning, the holds completed, how
\* PerformCalibration returned, and the smallest and largest value
\* g_currentValue had at the start of the latest hold and after each of its pumps
CalibIdle ==
    [ i |-> 0, ms |-> 0, iters |-> 0, extremeValue |-> 0, valueCaptured |-> FALSE,
      initialValue |-> 0, capturedMin |-> 0, capturedMax |-> 0, warned |-> {},
      holdsDone |-> 0, result |-> "none", windowMin |-> 0, windowMax |-> 0 ]

\* Resources.  main holds the preparsed data of the selected device (steps 1-2),
\* the input window with its raw-input registration
\* (SetupInputWindowAndRegistration) and the open MIDI port (step 3) from before
\* step 4 until it lets go of them; log lists, in program order, every release
\* and every message of the shutdown sequence handed to sendMessage.
NoResources ==
    [window |-> FALSE, midiPort |-> FALSE, preparsedData |-> FALSE, log |-> <<>>]
Acquired ==
    [window |-> TRUE, midiPort |-> TRUE, preparsedData |-> TRUE, log |-> <<>>]

Released(what) == [event |-> "release", what |-> what, msg |-> <<>>]
Sent(msg) == [event |-> "send", what |-> "midiPort", msg |-> msg]

\* for (ch = 0; ch < 16; ++ch)
MIDI_CHANNELS == 16

\* All Sound Off, Reset All Controllers, All Notes Off on one channel
ResetMessages(ch) == << <<176 + ch, 120, 0>>, <<176 + ch, 121, 0>>, <<176 + ch, 123, 0>> >>

RECURSIVE ResetSequence(_)
ResetSequence(ch) ==
    IF ch >= MIDI_CHANNELS THEN <<>> ELSE ResetMessages(ch) \o ResetSequence(ch + 1)

\* the early exits of main (e.g. lines 1723-1725): closePort,
\* CleanupInputWindowAndRegistration, HeapFree
ReleaseEarly(r) ==
    [ window |-> FALSE, midiPort |-> FALSE, preparsedData |-> FALSE,
      log |-> r.log
              \o (IF r.midiPort THEN << Released("midiPort") >> ELSE <<>>)
              \o (IF r.window THEN << Released("window") >> ELSE <<>>)
              \o (IF r.preparsedData THEN << Released("preparsedData") >> ELSE <<>>) ]

\* a variant that frees the preparsed data before the window is cleaned up
CleanupAfterLoopFreesFirst(r) ==
    LET reset == ResetSequence(0) IN
    [ window |-> FALSE, midiPort |-> FALSE, preparsedData |-> FALSE,
      log |-> r.log
              \o (IF r.preparsedData THEN << Released("preparsedData") >> ELSE <<>>)
              \o (IF r.window THEN << Released("window") >> ELSE <<>>)
              \o (IF r.midiPort
                     THEN [k \in 1..Len(reset) |-> Sent(reset[k])]
                          \o << Released("midiPort") >>
                     ELSE <<>>) ]

\* the cleanup after the monitoring loop, lines 1877-1909:
\* CleanupInputWindowAndRegistration, then (port open) the reset sequence and
\* closePort, then HeapFree.  A sendMessage that throws is swallowed.
CleanupAfterLoop(r) ==
    LET reset == ResetSequence(0) IN
    [ window |-> FALSE, midiPort |-> FALSE, preparsedData |-> FALSE,
      log |-> r.log
              \o (IF r.window THEN << Released("window") >> ELSE <<>>)
              \o (IF r.midiPort
                     THEN [k \in 1..Len(reset) |-> Sent(reset[k])]
                          \o << Released("midiPort") >>
                     ELSE <<>>)
              \o (IF r.preparsedData THEN << Released("preparsedData") >> ELSE <<>>) ]

\* the globals as initialised at lines 155-167; disk is the file found at start-up
InitWith(files) ==
    /\ pc = "start"
    /\ disk \in files
    /\ g_currentConfig = DefaultConfig
    /\ configLoaded = FALSE
    /\ g_quitFlag = FALSE
    /\ g_currentValue = 0
    /\ g_previousValue = -1
    /\ g_valueChanged = FALSE
    /\ g_lastSentMidiValue = NEVER_SENT
    /\ midiSendInterval = 0
    /\ midiElapsed = 0
    /\ sinceEmit = NoEmit
    /\ calib = CalibIdle
    /\ calls = <<>>
    /\ baseValue = 0
    /\ resources = NoResources

\* main, lines 1223-1238: the user picks the file; a failed load resets the
\* configuration and goes on to the interactive set-up.  The action runs on to
\* step 4: the device, the input window and the MIDI port are set up.
LoadConfiguration ==
    /\ pc = "start"
    /\ disk.present
    /\ IF LoadSucceeds(disk)
          THEN /\ g_currentConfig' = FromJson(disk.json)
               /\ configLoaded' = TRUE
               /\ pc' = "ready"
               /\ resources' = Acquired
          ELSE /\ g_currentConfig' = DefaultConfig
               /\ configLoaded' = FALSE
               \* "Press Enter to continue": standard input may have ended
               /\ \E stdinEnded \in BOOLEAN :
                    IF stdinEnded
                       THEN pc' = "exit" /\ resources' = resources
                       ELSE pc' = "configure" /\ resources' = Acquired
    /\ UNCHANGED <<disk, g_quitFlag, g_currentValue, g_previousValue, g_valueChanged,
                   g_lastSentMidiValue, midiSendInterval, midiElapsed, sinceEmit,
                   calib, calls, baseValue>>

\* main, lines 1239-1249: "Create New Configuration", or no file was found
CreateNewConfiguration ==
    /\ pc = "start"
    /\ resources' = Acquired
    /\ g_currentConfig' = DefaultConfig
    /\ configLoaded' = FALSE
    /\ pc' = "configure"
    /\ UNCHANGED <<disk, g_quitFlag, g_currentValue, g_previousValue, g_valueChanged,
                   g_lastSentMidiValue, midiSendInterval, midiElapsed, sinceEmit,
                   calib, calls, baseValue>>

\* main, step 4 (lines 1661-1712) with the control chosen in step 2.  A button
\* goes on to step 6; an axis enters PerformCalibration, whose first countdown
\* starts with i = PRE_CAPTURE_DELAY_SECONDS, ms = 0.
ConfigureMapping(choices) ==
    /\ pc = "configure"
    /\ \E c \in choices :
        /\ g_currentConfig' = c
        /\ IF c.isButton
              THEN pc' = "save" /\ calib' = calib
              ELSE /\ pc' = "countdownMin"
                   /\ calib' = [CalibIdle EXCEPT !.i = PRE_CAPTURE_DELAY_SECONDS]
    /\ UNCHANGED <<disk, configLoaded, g_quitFlag, g_currentValue, g_previousValue,
                   g_valueChanged, g_lastSentMidiValue, midiSendInterval,
                   midiElapsed, sinceEmit, calls, baseValue, resources>>

ConfigureButton == ConfigureMapping(ButtonChoices)
ConfigureAxis == ConfigureMapping(AxisChoices)

\* main, step 6 (lines 1741-1791): saved, or the save failed and monitoring goes
\* on unsaved, or standard input ended (g_quitFlag, return 1)
SaveConfiguration ==
    /\ pc = "save"
    /\ \E outcome \in {"saved", "failed", "eof"} :
        IF outcome = "eof"
            THEN /\ g_quitFlag' = TRUE
                 /\ pc' = "exit"
                 /\ disk' = disk
                 /\ resources' = ReleaseEarly(resources)
            ELSE /\ g_quitFlag' = g_quitFlag
                 /\ pc' = "ready"
                 /\ resources' = resources
                 /\ disk' = IF outcome = "saved" THEN ConfigFile(g_currentConfig) ELSE disk
    /\ UNCHANGED <<g_currentConfig, configLoaded, g_currentValue, g_previousValue,
                   g_valueChanged, g_lastSentMidiValue, midiSendInterval,
                   midiElapsed, sinceEmit, calib, calls, baseValue>>

-----------------------------------------------------------------------------
(* PerformCalibration (axis only; main calls it only while !configLoaded) *)

CountdownStages == {"countdownMin", "countdownMax"}
HoldStages == {"holdMin", "holdMax"}

\* a variant that records the value held before the last pump of the countdown
HoldEntryStale(c, captureMin, cur) ==
    [ c EXCEPT !.i = 0, !.ms = 0, !.iters = 0,
               !.extremeValue = IF captureMin THEN LONG_MAX ELSE LONG_MIN,
               !.valueCaptured = FALSE,
               !.initialValue = g_currentValue,
               !.windowMin = cur,
               !.windowMax = cur ]

\* captureHoldValue, lines 725-730: the locals at the start of a hold
HoldEntry(c, captureMin, cur) ==
    [ c EXCEPT !.i = 0, !.ms = 0, !.iters = 0,
               !.extremeValue = IF captureMin THEN LONG_MAX ELSE LONG_MIN,
               !.valueCaptured = FALSE,
               !.initialValue = cur,
               !.windowMin = cur,
               !.windowMax = cur ]

\* the update of extremeValue on a change, lines 764-768
UpdateExtreme(captureMin, extremeValue, cur) ==
    IF captureMin THEN Min(extremeValue, cur) ELSE Max(extremeValue, cur)

\* a variant without the fallback to initialValue
HoldResultExtreme(c) == c.extremeValue

\* the value captureHoldValue returns when its loop ends without quit, lines 800-810
HoldResult(c) == IF ~c.valueCaptured THEN c.initialValue ELSE c.extremeValue

\* a variant without the swap
SwapNever(cmin, cmax) == [min |-> cmin, max |-> cmax]

\* the sanity check of lines 887-895 on the two captured values
SwapIfInverted(cmin, cmax) ==
    IF cmin > cmax THEN [min |-> cmax, max |-> cmin] ELSE [min |-> cmin, max |-> cmax]

\* a variant in which the aborted calibration still marks the mapping calibrated
CalibrationAbortedMarksDone ==
    /\ pc' = "exit"
    /\ calib' = [calib EXCEPT !.result = "aborted"]
    /\ resources' = ReleaseEarly(resources)
    /\ g_currentConfig' = [g_currentConfig EXCEPT !.calibrationDone = TRUE]

\* a variant in which main goes on to step 6 after an aborted calibration
CalibrationAbortedSaves ==
    /\ pc' = "save"
    /\ calib' = [calib EXCEPT !.result = "aborted"]
    /\ resources' = resources
    /\ g_currentConfig' = g_currentConfig

\* a variant that sleeps one more slice before it gives up
CalibrationAbortedAfterSleep ==
    /\ pc' = "exit"
    /\ calib' = [calib EXCEPT !.result = "aborted", !.ms = @ + 1]
    /\ resources' = ReleaseEarly(resources)
    /\ g_currentConfig' = g_currentConfig

\* a variant in which a quit does not end the calibration
CalibrationAbortedStays ==
    /\ pc' = pc
    /\ calib' = calib
    /\ resources' = resources
    /\ g_currentConfig' = g_currentConfig

\* PerformCalibration returning false (lines 878-884) and main giving up
\* (lines 1721-1727): calibrationDone is not touched
CalibrationAborted ==
    /\ pc' = "exit"
    /\ calib' = [calib EXCEPT !.result = "aborted"]
    /\ resources' = ReleaseEarly(resources)
    /\ g_currentConfig' = g_currentConfig

\* One iteration of the inner loop of performCountdown, lines 695-709: the pump,
\* then sleep_for(100 ms).  After the last iteration performCountdown returns
\* true and captureHoldValue starts: it resets g_valueChanged.
CountdownStep(values) ==
    /\ pc \in CountdownStages
    /\ ~g_quitFlag
    /\ \E st \in PumpOutcomes(values) :
        /\ g_currentValue' = st.cur
        /\ g_quitFlag' = st.quit
        /\ IF st.quit
              THEN /\ CalibrationAborted
                   /\ g_valueChanged' = st.changed
              ELSE LET ms == calib.ms + 1
                       lastSlice == (ms = COUNTDOWN_SLICES)
                       i == IF lastSlice THEN calib.i - 1 ELSE calib.i
                   IN
                   /\ g_currentConfig' = g_currentConfig
                   /\ resources' = resources
                   /\ IF i = 0
                         THEN /\ pc' = IF pc = "countdownMin" THEN "holdMin" ELSE "holdMax"
                              /\ calib' = HoldEntry(calib, pc = "countdownMin", st.cur)
                              /\ g_valueChanged' = FALSE
                         ELSE /\ pc' = pc
                              /\ calib' = [calib EXCEPT !.i = i,
                                                        !.ms = IF lastSlice THEN 0 ELSE ms]
                              /\ g_valueChanged' = st.changed
    /\ UNCHANGED <<disk, configLoaded, g_previousValue, g_lastSentMidiValue,
                   midiSendInterval, midiElapsed, sinceEmit, calls, baseValue>>

\* One iteration of the hold loop, lines 747-790: taken while the clock reading
\* is before endTime.  The pump, then the change flag is consumed.
HoldIterate(values) ==
    /\ pc \in HoldStages
    /\ ~g_quitFlag
    /\ calib.iters < MaxHoldIters
    /\ \E st \in PumpOutcomes(values) :
        /\ g_currentValue' = st.cur
        /\ g_quitFlag' = st.quit
        /\ IF st.quit
              THEN /\ CalibrationAborted
                   /\ g_valueChanged' = st.changed
              ELSE /\ pc' = pc
                   /\ g_currentConfig' = g_currentConfig
                   /\ resources' = resources
                   /\ g_valueChanged' = FALSE
                   /\ calib' =
                        IF st.changed
                           THEN [calib EXCEPT
                                   !.iters = @ + 1,
                                   !.extremeValue = UpdateExtreme(pc = "holdMin", @, st.cur),
                                   !.valueCaptured = TRUE,
                                   !.windowMin = Min(@, st.cur),
                                   !.windowMax = Max(@, st.cur)]
                           ELSE [calib EXCEPT !.iters = @ + 1]
    /\ UNCHANGED <<disk, configLoaded, g_previousValue, g_lastSentMidiValue,
                   midiSendInterval, midiElapsed, sinceEmit, calls, baseValue>>

\* The clock reading reaches endTime: the loop of captureHoldValue ends and the
\* captured value is stored.  After the minimum the second countdown starts
\* (lines 838-856); after the maximum PerformCalibration finishes (lines 869-899).
HoldTimeUp ==
    /\ pc \in HoldStages
    /\ ~g_quitFlag
    /\ LET captured == HoldResult(calib)
           warned == IF calib.valueCaptured THEN calib.warned
                     ELSE calib.warned \cup {IF pc = "holdMin" THEN "min" ELSE "max"}
       IN
       IF pc = "holdMin"
          THEN /\ g_currentConfig' =
                    [g_currentConfig EXCEPT !.calibrationMinHid = captured]
               /\ pc' = "countdownMax"
               /\ calib' = [calib EXCEPT !.i = PRE_CAPTURE_DELAY_SECONDS, !.ms = 0,
                                         !.iters = 0, !.capturedMin = captured,
                                         !.warned = warned, !.holdsDone = 1]
          ELSE LET r == SwapIfInverted(g_currentConfig.calibrationMinHid, captured)
               IN /\ g_currentConfig' =
                       [g_currentConfig EXCEPT !.calibrationMinHid = r.min,
                                               !.calibrationMaxHid = r.max,
                                               !.calibrationDone = TRUE]
                  /\ pc' = "save"
                  /\ calib' = [calib EXCEPT !.iters = 0, !.capturedMax = captured,
                                            !.warned = warned, !.holdsDone = 2,
                                            !.result = "success"]
    /\ UNCHANGED <<disk, configLoaded, g_quitFlag, g_currentValue, g_previousValue,
                   g_valueChanged, g_lastSentMidiValue, midiSendInterval, midiElapsed,
                   sinceEmit, calls, baseValue, resources>>

-----------------------------------------------------------------------------
(* The monitoring loop *)

\* milliseconds between the clock readings of two consecutive ticks; every tick
\* ends with sleep_for(1 ms), so the reading advances by at least 1
TickSteps == {1, 5}

\* The clock.  steady_clock is read once per tick and only ever compared with
\* g_lastMidiSendTime, so the model keeps the difference
\*     midiElapsed = now - g_lastMidiSendTime            (line 1855)
\* as of the latest reading, and lets it saturate at midiSendInterval, the only
\* value it is compared with.  sinceEmit is the same difference taken from the
\* clock reading of the latest tick that handed a message to sendMessage
\* (NoEmit before the first one).
\* a variant in which the clock reading never moves
AdvanceStalled(elapsed, d, cap) == Min(elapsed, cap)

Advance(elapsed, d, cap) == Min(elapsed + d, cap)

Elapse(since, d, cap) ==
    IF since.emitted THEN [since EXCEPT !.ms = Advance(@, d, cap)] ELSE since

\* a variant that does not force the flag
StartMonitoringUnforced ==
    /\ pc = "ready"
    /\ g_previousValue' = g_currentValue
    /\ g_lastSentMidiValue' = NEVER_SENT
    /\ g_valueChanged' = g_valueChanged
    /\ midiSendInterval' = IF g_currentConfig.midiSendIntervalMs > 0
                              THEN g_currentConfig.midiSendIntervalMs ELSE 1
    /\ midiElapsed' = midiSendInterval'
    /\ baseValue' = g_currentValue
    /\ pc' = "monitor"
    /\ UNCHANGED <<disk, g_currentConfig, configLoaded, g_quitFlag, g_currentValue,
                   sinceEmit, calib, calls, resources>>

\* a variant that leaves g_previousValue as the global was initialised
StartMonitoringKeepsPrevious ==
    /\ pc = "ready"
    /\ g_previousValue' = g_previousValue
    /\ g_lastSentMidiValue' = NEVER_SENT
    /\ g_valueChanged' = TRUE
    /\ midiSendInterval' = IF g_currentConfig.midiSendIntervalMs > 0
                              THEN g_currentConfig.midiSendIntervalMs ELSE 1
    /\ midiElapsed' = midiSendInterval'
    /\ baseValue' = g_currentValue
    /\ pc' = "monitor"
    /\ UNCHANGED <<disk, g_currentConfig, configLoaded, g_quitFlag, g_currentValue,
                   sinceEmit, calib, calls, resources>>

\* main, lines 1832-1837: g_lastMidiSendTime = now - midiSendInterval
StartMonitoring ==
    /\ pc = "ready"
    /\ g_previousValue' = g_currentValue
    /\ g_lastSentMidiValue' = NEVER_SENT
    /\ g_valueChanged' = TRUE
    /\ midiSendInterval' = IF g_currentConfig.midiSendIntervalMs > 0
                              THEN g_currentConfig.midiSendIntervalMs ELSE 1
    /\ midiElapsed' = midiSendInterval'
    /\ baseValue' = g_currentValue
    /\ pc' = "monitor"
    /\ UNCHANGED <<disk, g_currentConfig, configLoaded, g_quitFlag, g_currentValue,
                   sinceEmit, calib, calls, resources>>

\* a variant without the test of the flag
CanSendMidiUnflagged(changed, elapsed, interval) == elapsed >= interval

\* a variant without the interval test
CanSendMidiUnthrottled(changed, elapsed, interval) == changed

\* bool canSendMidi = g_valueChanged && midiElapsed >= midiSendInterval
CanSendMidi(changed, elapsed, interval) == changed /\ elapsed >= interval

\* whether this SendMidiMessage call reaches g_midiOut.sendMessage
Emits(cfg, cur, prev, lastSent) == SendMidiMessage(cfg, cur, prev, lastSent, TRUE).msgs # <<>>

\* a variant in which a report is decoded after the pump, behind the loop's back
TickDecodesLate(values, maxCalls) ==
    /\ pc = "monitor"
    /\ ~g_quitFlag
    /\ Len(calls) < maxCalls
    /\ \E d \in TickSteps, st \in PumpOutcomes(values) :
        LET elapsed == Advance(midiElapsed, d, midiSendInterval)
            since == Elapse(sinceEmit, d, midiSendInterval)
        IN
        /\ g_currentValue' \in {st.cur} \cup values
        /\ g_quitFlag' = st.quit
        /\ IF st.quit
              THEN /\ pc' = "cleanup"
                   /\ g_valueChanged' = st.changed
                   /\ UNCHANGED <<midiElapsed, sinceEmit, g_previousValue,
                                  g_lastSentMidiValue, calls>>
              ELSE /\ pc' = pc
                   /\ IF CanSendMidi(st.changed, elapsed, midiSendInterval)
                         THEN \E sendOk \in IF Emits(g_currentConfig, st.cur, g_previousValue,
                                                     g_lastSentMidiValue)
                                               THEN BOOLEAN ELSE {TRUE} :
                              LET r == SendMidiMessage(g_currentConfig, st.cur,
                                           g_previousValue, g_lastSentMidiValue, sendOk)
                              IN /\ g_lastSentMidiValue' = r.lastSent
                                 /\ calls' = Append(calls, [cur |-> st.cur, msgs |-> r.msgs,
                                                            ok |-> sendOk, since |-> since,
                                                           changed |-> st.changed,
                                                           elapsed |-> elapsed])
                                 /\ midiElapsed' = 0
                                 /\ sinceEmit' = IF r.msgs # <<>>
                                                    THEN [emitted |-> TRUE, ms |-> 0]
                                                    ELSE since
                                 /\ g_previousValue' = st.cur
                                 /\ g_valueChanged' = FALSE
                         ELSE /\ g_valueChanged' = st.changed
                              /\ midiElapsed' = elapsed
                              /\ sinceEmit' = since
                              /\ UNCHANGED <<g_previousValue, g_lastSentMidiValue, calls>>
    /\ UNCHANGED <<disk, g_currentConfig, configLoaded, midiSendInterval, calib,
                   baseValue, resources>>

\* a variant that sets g_lastMidiSendTime only when a message was handed over
TickStampsOnEmit(values, maxCalls) ==
    /\ pc = "monitor"
    /\ ~g_quitFlag
    /\ Len(calls) < maxCalls
    /\ \E d \in TickSteps, st \in PumpOutcomes(values) :
        LET elapsed == Advance(midiElapsed, d, midiSendInterval)
            since == Elapse(sinceEmit, d, midiSendInterval)
        IN
        /\ g_currentValue' = st.cur
        /\ g_quitFlag' = st.quit
        /\ IF st.quit
              THEN /\ pc' = "cleanup"
                   /\ g_valueChanged' = st.changed
                   /\ UNCHANGED <<midiElapsed, sinceEmit, g_previousValue,
                                  g_lastSentMidiValue, calls>>
              ELSE /\ pc' = pc
                   /\ IF CanSendMidi(st.changed, elapsed, midiSendInterval)
                         THEN \E sendOk \in IF Emits(g_currentConfig, st.cur, g_previousValue,
                                                     g_lastSentMidiValue)
                                               THEN BOOLEAN ELSE {TRUE} :
                              LET r == SendMidiMessage(g_currentConfig, st.cur,
                                           g_previousValue, g_lastSentMidiValue, sendOk)
                              IN /\ g_lastSentMidiValue' = r.lastSent
                                 /\ calls' = Append(calls, [cur |-> st.cur, msgs |-> r.msgs,
                                                            ok |-> sendOk, since |-> since,
                                                           changed |-> st.changed,
                                                           elapsed |-> elapsed])
                                 /\ midiElapsed' = IF r.msgs # <<>> THEN 0 ELSE elapsed
                                 /\ sinceEmit' = IF r.msgs # <<>>
                                                    THEN [emitted |-> TRUE, ms |-> 0]
                                                    ELSE since
                                 /\ g_previousValue' = st.cur
                                 /\ g_valueChanged' = FALSE
                         ELSE /\ g_valueChanged' = st.changed
                              /\ midiElapsed' = elapsed
                              /\ sinceEmit' = since
                              /\ UNCHANGED <<g_previousValue, g_lastSentMidiValue, calls>>
    /\ UNCHANGED <<disk, g_currentConfig, configLoaded, midiSendInterval, calib,
                   baseValue, resources>>

\* a variant that clears the flag in a tick whose interval has not elapsed
TickDropsDeferred(values, maxCalls) ==
    /\ pc = "monitor"
    /\ ~g_quitFlag
    /\ Len(calls) < maxCalls
    /\ \E d \in TickSteps, st \in PumpOutcomes(values) :
        LET elapsed == Advance(midiElapsed, d, midiSendInterval)
            since == Elapse(sinceEmit, d, midiSendInterval)
        IN
        /\ g_currentValue' = st.cur
        /\ g_quitFlag' = st.quit
        /\ IF st.quit
              THEN /\ pc' = "cleanup"
                   /\ g_valueChanged' = st.changed
                   /\ UNCHANGED <<midiElapsed, sinceEmit, g_previousValue,
                                  g_lastSentMidiValue, calls>>
              ELSE /\ pc' = pc
                   /\ IF CanSendMidi(st.changed, elapsed, midiSendInterval)
                         THEN \E sendOk \in IF Emits(g_currentConfig, st.cur, g_previousValue,
                                                     g_lastSentMidiValue)
                                               THEN BOOLEAN ELSE {TRUE} :
                              LET r == SendMidiMessage(g_currentConfig, st.cur,
                                           g_previousValue, g_lastSentMidiValue, sendOk)
                              IN /\ g_lastSentMidiValue' = r.lastSent
                                 /\ calls' = Append(calls, [cur |-> st.cur, msgs |-> r.msgs,
                                                            ok |-> sendOk, since |-> since,
                                                           changed |-> st.changed,
                                                           elapsed |-> elapsed])
                                 /\ midiElapsed' = 0
                                 /\ sinceEmit' = IF r.msgs # <<>>
                                                    THEN [emitted |-> TRUE, ms |-> 0]
                                                    ELSE since
                                 /\ g_previousValue' = st.cur
                                 /\ g_valueChanged' = FALSE
                         ELSE /\ g_valueChanged' = FALSE
                              /\ midiElapsed' = elapsed
                              /\ sinceEmit' = since
                              /\ UNCHANGED <<g_previousValue, g_lastSentMidiValue, calls>>
    /\ UNCHANGED <<disk, g_currentConfig, configLoaded, midiSendInterval, calib,
                   baseValue, resources>>

\* a variant of the loop body without g_previousValue = g_currentValue
TickKeepsPrevious(values, maxCalls) ==
    /\ pc = "monitor"
    /\ ~g_quitFlag
    /\ Len(calls) < maxCalls
    /\ \E d \in TickSteps, st \in PumpOutcomes(values) :
        LET elapsed == Advance(midiElapsed, d, midiSendInterval)
            since == Elapse(sinceEmit, d, midiSendInterval)
        IN
        /\ g_currentValue' = st.cur
        /\ g_quitFlag' = st.quit
        /\ IF st.quit
              THEN /\ pc' = "cleanup"
                   /\ g_valueChanged' = st.changed
                   /\ UNCHANGED <<midiElapsed, sinceEmit, g_previousValue,
                                  g_lastSentMidiValue, calls>>
              ELSE /\ pc' = pc
                   /\ IF CanSendMidi(st.changed, elapsed, midiSendInterval)
                         THEN \E sendOk \in IF Emits(g_currentConfig, st.cur, g_previousValue,
                                                     g_lastSentMidiValue)
                                               THEN BOOLEAN ELSE {TRUE} :
                              LET r == SendMidiMessage(g_currentConfig, st.cur,
                                           g_previousValue, g_lastSentMidiValue, sendOk)
                              IN /\ g_lastSentMidiValue' = r.lastSent
                                 /\ calls' = Append(calls, [cur |-> st.cur, msgs |-> r.msgs,
                                                            ok |-> sendOk, since |-> since,
                                                           changed |-> st.changed,
                                                           elapsed |-> elapsed])
                                 /\ midiElapsed' = 0
                                 /\ sinceEmit' = IF r.msgs # <<>>
                                                    THEN [emitted |-> TRUE, ms |-> 0]
                                                    ELSE since
                                 /\ g_previousValue' = g_previousValue
                                 /\ g_valueChanged' = FALSE
                         ELSE /\ g_valueChanged' = st.changed
                              /\ midiElapsed' = elapsed
                              /\ sinceEmit' = since
                              /\ UNCHANGED <<g_previousValue, g_lastSentMidiValue, calls>>
    /\ UNCHANGED <<disk, g_currentConfig, configLoaded, midiSendInterval, calib,
                   baseValue, resources>>

\* One iteration of while (!g_quitFlag), lines 1839-1875: the pump, the clock
\* reading, and SendMidiMessage with its bookkeeping when canSendMidi.  A WM_QUIT
\* found by the pump leaves the loop before anything else is done.
\* calls records each SendMidiMessage call: the value it read, the message it
\* handed to sendMessage (none or one), whether sendMessage returned normally,
\* the time since the previous message as of this tick's clock reading, and the
\* two operands of canSendMidi: g_valueChanged after the pump and the time since
\* g_lastMidiSendTime.
Tick(values, maxCalls) ==
    /\ pc = "monitor"
    /\ ~g_quitFlag
    /\ Len(calls) < maxCalls
    /\ \E d \in TickSteps, st \in PumpOutcomes(values) :
        LET elapsed == Advance(midiElapsed, d, midiSendInterval)
            since == Elapse(sinceEmit, d, midiSendInterval)
        IN
        /\ g_currentValue' = st.cur
        /\ g_quitFlag' = st.quit
        /\ IF st.quit
              THEN /\ pc' = "cleanup"
                   /\ g_valueChanged' = st.changed
                   /\ UNCHANGED <<midiElapsed, sinceEmit, g_previousValue,
                                  g_lastSentMidiValue, calls>>
              ELSE /\ pc' = pc
                   /\ IF CanSendMidi(st.changed, elapsed, midiSendInterval)
                         THEN \E sendOk \in IF Emits(g_currentConfig, st.cur, g_previousValue,
                                                     g_lastSentMidiValue)
                                               THEN BOOLEAN ELSE {TRUE} :
                              LET r == SendMidiMessage(g_currentConfig, st.cur,
                                           g_previousValue, g_lastSentMidiValue, sendOk)
                              IN /\ g_lastSentMidiValue' = r.lastSent
                                 /\ calls' = Append(calls, [cur |-> st.cur, msgs |-> r.msgs,
                                                            ok |-> sendOk, since |-> since,
                                                           changed |-> st.changed,
                                                           elapsed |-> elapsed])
                                 /\ midiElapsed' = 0
                                 /\ sinceEmit' = IF r.msgs # <<>>
                                                    THEN [emitted |-> TRUE, ms |-> 0]
                                                    ELSE since
                                 /\ g_previousValue' = st.cur
                                 /\ g_valueChanged' = FALSE
                         ELSE /\ g_valueChanged' = st.changed
                              /\ midiElapsed' = elapsed
                              /\ sinceEmit' = since
                              /\ UNCHANGED <<g_previousValue, g_lastSentMidiValue, calls>>
    /\ UNCHANGED <<disk, g_currentConfig, configLoaded, midiSendInterval, calib,
                   baseValue, resources>>

\* main, lines 1877-1919, after the loop
Shutdown ==
    /\ pc = "cleanup"
    /\ pc' = "exit"
    /\ resources' = CleanupAfterLoop(resources)
    /\ UNCHANGED <<disk, g_currentConfig, configLoaded, g_quitFlag, g_currentValue,
                   g_previousValue, g_valueChanged, g_lastSentMidiValue,
                   midiElapsed, sinceEmit, midiSendInterval, calib, calls, baseValue>>

-----------------------------------------------------------------------------
(* Specifications *)

\* a button mapping, loaded or newly configured, and its monitoring session
InitButton == InitWith(ButtonFiles \cup {NoFile, MalformedFile})

TickButton == Tick({0, 1}, MaxCalls)

NextButton ==
    \/ LoadConfiguration
    \/ CreateNewConfiguration
    \/ ConfigureButton
    \/ SaveConfiguration
    \/ StartMonitoring
    \/ TickButton
    \/ Shutdown

SpecButton == InitButton /\ [][NextButton]_vars

\* an axis mapping loaded from disk and its monitoring session
InitAxis == InitWith(AxisFiles)

\* raw values the axis reports while it is monitored
MonitorAxisValues == {0, 500, 1000}

TickAxis == Tick(MonitorAxisValues, MaxAxisCalls)

NextAxis ==
    \/ LoadConfiguration
    \/ StartMonitoring
    \/ TickAxis
    \/ Shutdown

SpecAxis == InitAxis /\ [][NextAxis]_vars

\* a new axis mapping: interactive set-up and PerformCalibration
InitCalib == InitWith({NoFile, MalformedFile})

\* raw values the axis reports while it is calibrated
CalibAxisValues == {200, 500, 800}

CountdownStepAxis == CountdownStep(CalibAxisValues)
HoldIterateAxis == HoldIterate(CalibAxisValues)

NextCalib ==
    \/ LoadConfiguration
    \/ CreateNewConfiguration
    \/ ConfigureAxis
    \/ CountdownStepAxis
    \/ HoldIterateAxis
    \/ HoldTimeUp
    \/ SaveConfiguration

SpecCalib == InitCalib /\ [][NextCalib]_vars

\* the button session with the loop's scheduling: the loop never blocks, so a
\* tick that can be taken is eventually taken
TickButtonFair == Tick({0, 1}, MaxFairCalls)

NextButtonFair ==
    \/ LoadConfiguration
    \/ CreateNewConfiguration
    \/ ConfigureButton
    \/ SaveConfiguration
    \/ StartMonitoring
    \/ TickButtonFair
    \/ Shutdown

SpecButtonFair == InitButton /\ [][NextButtonFair]_vars /\ WF_vars(TickButtonFair)

\* a whole run with a new axis mapping: set-up, PerformCalibration, the save,
\* the monitoring loop and the cleanup
SessionValues == {200, 500}

CountdownStepSession == CountdownStep(SessionValues)
HoldIterateSession == HoldIterate(SessionValues)
TickSession == Tick(SessionValues, MaxSessionCalls)

NextSession ==
    \/ LoadConfiguration
    \/ CreateNewConfiguration
    \/ ConfigureAxis
    \/ CountdownStepSession
    \/ HoldIterateSession
    \/ HoldTimeUp
    \/ SaveConfiguration
    \/ StartMonitoring
    \/ TickSession
    \/ Shutdown

SpecSession == InitCalib /\ [][NextSession]_vars

\* mappings loaded from files whose fields were edited by hand: from_json copies
\* channel, number, velocity, CC values and the calibration unvalidated; the
\* interval is 0, negative, absent, 10 and 1
UnvalidatedFiles ==
    { ConfigFile(MidiMappingConfig(TRUE, "NOTE_ON_OFF", 16, 200, 300, 127, 0, 0, 0, FALSE, FALSE, 0)),
      ConfigFile(MidiMappingConfig(TRUE, "CC", -1, 128, 64, 255, -1, 0, 0, FALSE, FALSE, -5)),
      ConfigFile(Without(MidiMappingConfig(FALSE, "CC", 5, 7, 64, 127, 0, 0, 1000, TRUE, FALSE, 1),
                         "midiSendIntervalMs")),
      ConfigFile(MidiMappingConfig(FALSE, "CC", 31, -128, 64, 127, 0,
                                   LONG_MAX, LONG_MIN, TRUE, FALSE, 10)),
      ConfigFile(MidiMappingConfig(FALSE, "CC", 3, 130, 64, 127, 0,
                                   -1, LONG_MAX, TRUE, TRUE, 1)) }

InitWire == InitWith(UnvalidatedFiles)

\* raw values the axis reports: below, inside and above 0..1000
WireValues == {-5, 500, 2000}

TickWire == Tick(WireValues, MaxWireCalls)

NextWire ==
    \/ LoadConfiguration
    \/ StartMonitoring
    \/ TickWire
    \/ Shutdown

SpecWire == InitWire /\ [][NextWire]_vars

\* files that do not load: not openable, not JSON, not an object, a string
\* where from_json asks for a number, the control or the channel missing; and
\* one that loads
LoadFiles ==
    LET button == MidiMappingConfig(TRUE, "NOTE_ON_OFF", 2, 60, 100, 127, 0, 0, 0,
                                    FALSE, FALSE, 10)
    IN { UnreadableFile, MalformedFile, NotObjectFile, IllTypedFile(button),
         ConfigFile(Without(button, "isButton")),
         ConfigFile(Without(button, "midiChannel")),
         ConfigFile(button) }

InitLoad == InitWith(LoadFiles)

TickLoad == Tick({0, 1}, MaxLoadCalls)

NextLoad ==
    \/ LoadConfiguration
    \/ CreateNewConfiguration
    \/ ConfigureButton
    \/ SaveConfiguration
    \/ StartMonitoring
    \/ TickLoad
    \/ Shutdown

SpecLoad == InitLoad /\ [][NextLoad]_vars

\* PerformCalibration called with a button selected.  main calls the function
\* only for an axis (line 1721), so this is the function on its own: the mapping
\* is any button mapping and the sampling state any state WindowProc can leave.
ButtonMappings ==
    { f.json : f \in ButtonFiles } \cup ButtonChoices
    \cup { MidiMappingConfig(TRUE, "CC", 2, 60, 100, 127, 0, 10, 20, done, FALSE, 10) :
              done \in BOOLEAN }

InitButtonCalibration ==
    /\ pc = "calibrate"
    /\ disk = NoFile
    /\ g_currentConfig \in ButtonMappings
    /\ configLoaded = FALSE
    /\ g_quitFlag = FALSE
    /\ g_currentValue \in {0, 1}
    /\ g_previousValue \in {NEVER_SENT, 0, 1}
    /\ g_valueChanged \in BOOLEAN
    /\ g_lastSentMidiValue = NEVER_SENT
    /\ midiSendInterval = 0
    /\ midiElapsed = 0
    /\ sinceEmit = NoEmit
    /\ calib = CalibIdle
    /\ calls = <<>>
    /\ baseValue = 0
    /\ resources = Acquired

\* a variant that marks the button mapping calibrated
PerformCalibrationOfButtonMarksDone(cfg) ==
    [success |-> TRUE, config |-> [cfg EXCEPT !.calibrationDone = TRUE]]

\* if (g_currentConfig.control.isButton) return true;
PerformCalibrationOfButton(cfg) == [success |-> TRUE, config |-> cfg]

PerformCalibrationButton ==
    /\ pc = "calibrate"
    /\ g_currentConfig.isButton
    /\ LET r == PerformCalibrationOfButton(g_currentConfig) IN
        /\ g_currentConfig' = r.config
        /\ calib' = [calib EXCEPT !.result = IF r.success THEN "success" ELSE "aborted"]
    /\ pc' = "calibrated"
    /\ UNCHANGED <<disk, configLoaded, g_quitFlag, g_currentValue, g_previousValue,
                   g_valueChanged, g_lastSentMidiValue, midiSendInterval, midiElapsed,
                   sinceEmit, calls, baseValue, resources>>

SpecButtonCalibration == InitButtonCalibration /\ [][PerformCalibrationButton]_vars

\* main from the end of the configuration menu to step 4, one resource at a
\* time.  A session starts either with a loaded axis mapping or with the
\* defaults of "Create New Configuration".
LoadedAxisMapping == MidiMappingConfig(FALSE, "CC", 3, 7, 64, 127, 0, 0, 1000, TRUE, FALSE, 1)

InitResources ==
    /\ pc = "selectDevice"
    /\ configLoaded \in BOOLEAN
    /\ g_currentConfig = IF configLoaded THEN LoadedAxisMapping ELSE DefaultConfig
    /\ disk = IF configLoaded THEN ConfigFile(LoadedAxisMapping) ELSE NoFile
    /\ g_quitFlag = FALSE
    /\ g_currentValue = 0
    /\ g_previousValue = -1
    /\ g_valueChanged = FALSE
    /\ g_lastSentMidiValue = NEVER_SENT
    /\ midiSendInterval = 0
    /\ midiElapsed = 0
    /\ sinceEmit = NoEmit
    /\ calib = CalibIdle
    /\ calls = <<>>
    /\ baseValue = 0
    /\ resources = NoResources

\* the exits of steps 1-2 that hold preparsed data (e.g. lines 1425, 1495, 1502,
\* 1560) and of a failed set-up of the window (line 1580): HeapFree when the
\* pointer is not null
FreePreparsedData(r) ==
    [ r EXCEPT !.preparsedData = FALSE,
               !.log = IF r.preparsedData THEN Append(@, Released("preparsedData")) ELSE @ ]

\* CleanupInputWindowAndRegistration, lines 620-655
CleanupInputWindowAndRegistration(r) ==
    [ r EXCEPT !.window = FALSE,
               !.log = IF r.window THEN Append(@, Released("window")) ELSE @ ]

\* main, steps 1-2 (lines 1252-1570): the device is found and its preparsed data
\* is held in g_selectedDevicePreparsedData; or no device is there (return 1 with
\* nothing held); or a later check fails and the preparsed data is freed
SelectHidDevice ==
    /\ pc = "selectDevice"
    /\ \E outcome \in {"selected", "noDevice", "noControl"} :
        LET held == [resources EXCEPT !.preparsedData = TRUE] IN
        CASE outcome = "selected" -> pc' = "setupWindow" /\ resources' = held
          [] outcome = "noDevice" -> pc' = "exit" /\ resources' = resources
          [] outcome = "noControl" -> pc' = "exit" /\ resources' = FreePreparsedData(held)
    /\ UNCHANGED <<disk, g_currentConfig, configLoaded, g_quitFlag, g_currentValue,
                   g_previousValue, g_valueChanged, g_lastSentMidiValue,
                   midiSendInterval, midiElapsed, sinceEmit, calib, calls, baseValue>>

\* SetupInputWindowAndRegistration (lines 550-617) as main calls it (lines
\* 1573-1583): RegisterClass fails and nothing was created; or a later step
\* fails and the function cleans up the window it created; in both cases main
\* frees the preparsed data and returns
SetupInputWindowAndRegistration ==
    /\ pc = "setupWindow"
    /\ \E outcome \in {"registered", "noClass", "noRegistration"} :
        LET created == [resources EXCEPT !.window = TRUE] IN
        CASE outcome = "registered" -> pc' = "openMidi" /\ resources' = created
          [] outcome = "noClass" ->
                pc' = "exit" /\ resources' = FreePreparsedData(resources)
          [] outcome = "noRegistration" ->
                /\ pc' = "exit"
                /\ resources' = FreePreparsedData(CleanupInputWindowAndRegistration(created))
    /\ UNCHANGED <<disk, g_currentConfig, configLoaded, g_quitFlag, g_currentValue,
                   g_previousValue, g_valueChanged, g_lastSentMidiValue,
                   midiSendInterval, midiElapsed, sinceEmit, calib, calls, baseValue>>

\* main, step 3 (lines 1585-1657): the port is chosen or found and opened; no
\* port chosen, or openPort throws: the window is cleaned up, the preparsed
\* data freed, return 1
OpenMidiPort ==
    /\ pc = "openMidi"
    /\ \E opened \in BOOLEAN :
        IF opened
           THEN /\ pc' = IF configLoaded THEN "ready" ELSE "configure"
                /\ resources' = [resources EXCEPT !.midiPort = TRUE]
           ELSE /\ pc' = "exit"
                /\ resources' = FreePreparsedData(CleanupInputWindowAndRegistration(resources))
    /\ UNCHANGED <<disk, g_currentConfig, configLoaded, g_quitFlag, g_currentValue,
                   g_previousValue, g_valueChanged, g_lastSentMidiValue,
                   midiSendInterval, midiElapsed, sinceEmit, calib, calls, baseValue>>

NextResources ==
    \/ SelectHidDevice
    \/ SetupInputWindowAndRegistration
    \/ OpenMidiPort
    \/ ConfigureAxis
    \/ CountdownStepSession
    \/ HoldIterateSession
    \/ HoldTimeUp
    \/ SaveConfiguration
    \/ StartMonitoring
    \/ TickSession
    \/ Shutdown

SpecResources == InitResources /\ [][NextResources]_vars

\* calibrated axis mappings loaded from disk, monitored by a loop that keeps
\* running: the forward and the reversed mapping of AxisFiles
SettleFiles ==
    { ConfigFile(MidiMappingConfig(FALSE, "CC", 3, 7, 64, 127, 0, 0, 1000, TRUE, FALSE, 1)),
      ConfigFile(MidiMappingConfig(FALSE, "CC", 3, 7, 64, 127, 0, 0, 1000, TRUE, TRUE, 10)) }

InitSettle == InitWith(SettleFiles)

TickSettle == Tick(MonitorAxisValues, MaxSettleCalls)

NextSettle ==
    \/ LoadConfiguration
    \/ StartMonitoring
    \/ TickSettle
    \/ Shutdown

\* an iteration whose pump finds no report with a value of the axis, and no quit
TickSettleQuiet == Tick({}, MaxSettleCalls) /\ ~g_quitFlag'

\* the loop has no blocking call: while (!g_quitFlag) keeps iterating whether or
\* not reports arrive, and the clock moves on
SpecSettle == InitSettle /\ [][NextSettle]_vars /\ WF_vars(TickSettleQuiet)

\* calibrated ranges with calibrationMinHid < calibrationMaxHid, as a finished
\* calibration or a file can leave them: narrow, odd, even, signed, wide, and
\* two whose difference does not fit a LONG
MappingRanges ==
    { <<0, 1>>, <<0, 2>>, <<0, 3>>, <<0, 255>>, <<0, 1000>>, <<-100, 100>>,
      <<-32768, 32767>>, <<0, 8000000>>, <<-1, LONG_MAX>>, <<LONG_MIN, LONG_MAX>> }

MappingFiles ==
    { ConfigFile(MidiMappingConfig(FALSE, "CC", 0, 1, 64, 127, 0, r[1], r[2], TRUE, rev, 1)) :
        r \in MappingRanges, rev \in BOOLEAN }

InitMapping == InitWith(MappingFiles)

\* raw values the axis reports while it is monitored
MappingValues == {-1, 1, 500}

TickMapping == Tick(MappingValues, MaxMappingCalls)

NextMapping ==
    \/ LoadConfiguration
    \/ StartMonitoring
    \/ TickMapping
    \/ Shutdown

SpecMapping == InitMapping /\ [][NextMapping]_vars

-----------------------------------------------------------------------------
(* Properties *)

HasMessage(c) == c.msgs # <<>>

\* the messages handed to sendMessage in this session, in order
EmittedMessages ==
    LET sel == SelectSeq(calls, HasMessage) IN [k \in 1..Len(sel) |-> sel[k].msgs[1]]

\* the raw values evaluated by the SendMidiMessage calls of this session, in order
EvaluatedValues == [k \in 1..Len(calls) |-> calls[k].cur]

\* the value the previous call evaluated; for the first call, the value at the
\* start of monitoring
EvaluatedBefore(k) == IF k = 1 THEN baseValue ELSE calls[k - 1].cur

NoteOnOffButton(cfg) == cfg.isButton /\ cfg.midiMessageType = "NOTE_ON_OFF"

ExpectedNoteOn(cfg) ==
    << 144 + cfg.midiChannel, cfg.midiNoteOrCCNumber, cfg.midiValueNoteOnVelocity >>
ExpectedNoteOff(cfg) == << 128 + cfg.midiChannel, cfg.midiNoteOrCCNumber, 0 >>

\* C1: for a button mapped to NoteOnOff, a SendMidiMessage call emits Note-On
\* [0x90|channel, note, velocity] exactly when the button was released at the
\* previous call and is pressed now, Note-Off [0x80|channel, note, 0] exactly when
\* it was pressed and is released now, and nothing when the pressed state is the
\* same; when the calls evaluate 0,0,1,1,0 exactly two messages are emitted, the
\* Note-On and then the Note-Off.
C1_ButtonEdges ==
    NoteOnOffButton(g_currentConfig) =>
        /\ \A k \in 1..Len(calls) :
            LET wasPressed == EvaluatedBefore(k) # 0
                currentlyPressed == calls[k].cur # 0
            IN calls[k].msgs =
                 IF ~wasPressed /\ currentlyPressed
                    THEN << ExpectedNoteOn(g_currentConfig) >>
                 ELSE IF wasPressed /\ ~currentlyPressed
                    THEN << ExpectedNoteOff(g_currentConfig) >>
                 ELSE <<>>
        /\ (baseValue = 0 /\ EvaluatedValues = <<0, 0, 1, 1, 0>>) =>
              EmittedMessages = << ExpectedNoteOn(g_currentConfig),
                                   ExpectedNoteOff(g_currentConfig) >>

\* a NoteOnOff session whose five calls evaluated 0,0,1,1,0
C1_Witness ==
    /\ NoteOnOffButton(g_currentConfig)
    /\ baseValue = 0
    /\ EvaluatedValues = <<0, 0, 1, 1, 0>>
    /\ Len(EmittedMessages) = 2

CalibratedAxis(cfg) == ~cfg.isButton /\ cfg.midiMessageType = "CC" /\ cfg.calibrationDone

Calibrated0To1000(cfg) ==
    CalibratedAxis(cfg) /\ cfg.calibrationMinHid = 0 /\ cfg.calibrationMaxHid = 1000

\* the MIDI values expected for raw 0, 500, 1000
ExpectedForward == [r \in {0, 500, 1000} |-> IF r = 0 THEN 0 ELSE IF r = 500 THEN 64 ELSE 127]
ExpectedReversed == [r \in {0, 500, 1000} |-> IF r = 0 THEN 127 ELSE IF r = 500 THEN 64 ELSE 0]
ExpectedReversedAsWritten ==
    [r \in {0, 500, 1000} |-> IF r = 0 THEN 127 ELSE IF r = 500 THEN 63 ELSE 0]

\* with the axis calibrated to 0..1000: every raw value of the table is mapped to
\* its expected MIDI value, and every CC message sent carries the expected value
\* of the raw value it was computed from
AxisTableHolds(cfg, forward, reversed) ==
    LET expected == IF cfg.reverseAxis THEN reversed ELSE forward IN
    /\ \A r \in DOMAIN expected : AxisMidiValue(cfg, r) = expected[r]
    /\ \A k \in 1..Len(calls) :
        (HasMessage(calls[k]) /\ calls[k].cur \in DOMAIN expected) =>
            calls[k].msgs[1][3] = expected[calls[k].cur]

\* C2 (as the code computes it): with calibration done, min 0 and max 1000, raw 0,
\* 1000 and 500 are sent as MIDI 0, 127 and 64 when reverseAxis is false, and as
\* MIDI 127, 0 and 64 when reverseAxis is true.
C2_AxisMapping ==
    Calibrated0To1000(g_currentConfig) =>
        AxisTableHolds(g_currentConfig, ExpectedForward, ExpectedReversed)

\* C2 as written: ... and as MIDI 127, 0 and 63 when reverseAxis is true.
C2_AsWritten ==
    Calibrated0To1000(g_currentConfig) =>
        AxisTableHolds(g_currentConfig, ExpectedForward, ExpectedReversedAsWritten)

\* a reversed 0..1000 axis sent raw 500 as CC value 64
C2_Witness ==
    /\ Calibrated0To1000(g_currentConfig)
    /\ g_currentConfig.reverseAxis
    /\ \E k \in 1..Len(calls) :
        HasMessage(calls[k]) /\ calls[k].cur = 500 /\ calls[k].msgs[1][3] = 64

\* C3: in the monitoring loop, when a message is emitted and a message was
\* emitted before it in the session, at least midiSendIntervalMs lie between the
\* clock readings of the two ticks.
C3_RateLimit ==
    \A k \in 1..Len(calls) :
        (HasMessage(calls[k]) /\ calls[k].since.emitted) =>
            calls[k].since.ms >= g_currentConfig.midiSendIntervalMs

\* interval 10 ms: two messages were sent, a further change arrived 5 ms after
\* the second and is waiting
C3_Witness ==
    /\ pc = "monitor"
    /\ g_currentConfig.midiSendIntervalMs = 10
    /\ Len(EmittedMessages) = 2
    /\ sinceEmit = [emitted |-> TRUE, ms |-> 5]
    /\ g_valueChanged

\* C4: a change flagged while the interval has not elapsed is not dropped:
\* g_valueChanged stays set on every tick that does not call SendMidiMessage;
\* a call evaluates the value that is current at that tick and clears the flag;
\* and while the loop runs a flagged change leads to such a call unless quit is
\* signalled.
C4_Deferred ==
    /\ [][ (pc = "monitor" /\ g_valueChanged /\ calls' = calls) => g_valueChanged' ]_vars
    /\ [][ (calls' # calls) =>
              /\ calls'[Len(calls')].cur = g_currentValue'
              /\ g_previousValue' = g_currentValue'
              /\ ~g_valueChanged' ]_vars
    /\ (pc = "monitor" /\ g_valueChanged /\ Len(calls) < MaxFairCalls)
          ~> (g_quitFlag \/ ~g_valueChanged)

\* a change is flagged, the interval since the last call has not elapsed, and
\* the value has moved on
C4_Witness ==
    /\ pc = "monitor"
    /\ Len(calls) >= 1
    /\ g_valueChanged
    /\ midiElapsed > 0
    /\ midiElapsed < midiSendInterval
    /\ g_currentValue # g_previousValue

Delivered(k) == HasMessage(calls[k]) /\ calls[k].ok

\* C5: for a calibrated axis a SendMidiMessage call emits a CC message exactly
\* when the value it computes differs from g_lastSentMidiValue, and the message
\* carries that value; two consecutive CC messages sent in a session never carry
\* the same value.
C5_NoDuplicateCC ==
    /\ [][ (CalibratedAxis(g_currentConfig) /\ calls' # calls) =>
              LET midiValue == AxisMidiValue(g_currentConfig, g_currentValue')
                  call == calls'[Len(calls')]
              IN IF midiValue # g_lastSentMidiValue
                    THEN call.msgs = << << 176 + g_currentConfig.midiChannel,
                                           g_currentConfig.midiNoteOrCCNumber,
                                           midiValue >> >>
                    ELSE call.msgs = <<>> ]_vars
    /\ [] (CalibratedAxis(g_currentConfig) =>
              \A j, k \in 1..Len(calls) :
                  ( /\ j < k
                    /\ Delivered(j)
                    /\ Delivered(k)
                    /\ \A m \in (j + 1)..(k - 1) : ~Delivered(m) )
                  => calls[j].msgs[1][3] # calls[k].msgs[1][3])

\* a calibrated axis: a message sent, then a call that emitted nothing, then
\* another message sent
C5_Witness ==
    /\ CalibratedAxis(g_currentConfig)
    /\ \E j, k, m \in 1..Len(calls) :
        j < k /\ k < m /\ Delivered(j) /\ ~HasMessage(calls[k]) /\ Delivered(m)

\* C6: while calibrationDone is false no SendMidiMessage call emits a message
\* for an axis, whatever the raw values and ticks.
C6_UncalibratedSilent ==
    (~g_currentConfig.isButton /\ ~g_currentConfig.calibrationDone) =>
        \A k \in 1..Len(calls) : calls[k].msgs = <<>>

\* an axis loaded with calibrationDone = false, evaluated on two different values
C6_Witness ==
    /\ ~g_currentConfig.isButton
    /\ g_currentConfig.midiMessageType = "CC"
    /\ ~g_currentConfig.calibrationDone
    /\ Len(calls) >= 2
    /\ calls[1].cur # calls[2].cur

\* C7: a quit signalled before both holds completed ends the calibration as
\* aborted with calibrationDone false; calibrationDone is set only by a
\* calibration that completed both holds.
C7_QuitAborts ==
    /\ (g_quitFlag /\ calib.holdsDone < 2) =>
          /\ calib.result = "aborted"
          /\ ~g_currentConfig.calibrationDone
          /\ pc = "exit"
    /\ g_currentConfig.calibrationDone => calib.holdsDone = 2

\* quit arrived after the minimum was captured, before the second hold ended
C7_Witness ==
    /\ g_quitFlag
    /\ calib.holdsDone = 1
    /\ calib.result = "aborted"
    /\ ~g_currentConfig.calibrationDone

\* C8: when both holds complete with captured min > captured max the two are
\* swapped (otherwise stored as captured) and calibrationDone is set; it is set
\* only by this step, so with min <= max.
C8_SwapBeforeDone ==
    /\ calib.result = "success" =>
          /\ g_currentConfig.calibrationDone
          /\ IF calib.capturedMin > calib.capturedMax
                THEN /\ g_currentConfig.calibrationMinHid = calib.capturedMax
                     /\ g_currentConfig.calibrationMaxHid = calib.capturedMin
                ELSE /\ g_currentConfig.calibrationMinHid = calib.capturedMin
                     /\ g_currentConfig.calibrationMaxHid = calib.capturedMax
    /\ g_currentConfig.calibrationDone =>
          /\ calib.result = "success"
          /\ g_currentConfig.calibrationMinHid <= g_currentConfig.calibrationMaxHid

\* captured 800 then 200: stored as 200, 800, done
C8_Witness ==
    /\ calib.result = "success"
    /\ calib.capturedMin = 800
    /\ calib.capturedMax = 200
    /\ g_currentConfig.calibrationMinHid = 200
    /\ g_currentConfig.calibrationMaxHid = 800
    /\ g_currentConfig.calibrationDone

\* C9 as written: in every reachable state with calibrationDone true,
\* calibrationMinHid <= calibrationMaxHid, also for a loaded configuration.
C9_DoneImpliesOrdered ==
    g_currentConfig.calibrationDone =>
        g_currentConfig.calibrationMinHid <= g_currentConfig.calibrationMaxHid

\* C10: a hold that ends without having seen a change captures the value
\* g_currentValue had before the hold began (it still has it), never the
\* LONG_MAX / LONG_MIN sentinel, and the calibration goes on to its next stage.
C10_NoSignalFallback ==
    [][ (pc \in HoldStages /\ pc' \notin {pc, "exit"} /\ ~calib.valueCaptured) =>
          LET captured == IF pc = "holdMin" THEN calib'.capturedMin
                                            ELSE calib'.capturedMax
          IN /\ captured = calib.initialValue
             /\ captured = g_currentValue
             /\ captured \notin {LONG_MAX, LONG_MIN}
             /\ IF pc = "holdMin"
                   THEN /\ pc' = "countdownMax"
                        /\ g_currentConfig'.calibrationMinHid = captured
                   ELSE /\ pc' = "save"
                        /\ calib'.result = "success" ]_vars

\* the minimum hold began at 500 and saw no change: 500 was captured and the
\* second countdown is running
C10_Witness ==
    /\ pc = "countdownMax"
    /\ "min" \in calib.warned
    /\ calib.capturedMin = 500
    /\ g_currentConfig.calibrationMinHid = 500

\* C11 as written: at the end of the minimum hold the captured value is the
\* smallest value g_currentValue had during the hold window (at its start and
\* after each pump), and at the end of the maximum hold the largest.
C11_RunningExtreme ==
    /\ (pc = "countdownMax" /\ calib.holdsDone = 1) =>
          calib.capturedMin = calib.windowMin
    /\ calib.result = "success" => calib.capturedMax = calib.windowMax

\* the sampling state with the change flag cleared, as its consumer leaves it
FlagCleared(st) == [st EXCEPT !.changed = FALSE]

\* a report of the selected axis that decodes to v
SampleOf(v) == InputMsg("selected", "HIDP_STATUS_SUCCESS", v)

\* C12: a successfully decoded sample raises a change event (sets
\* g_valueChanged) if and only if it differs from the sample before it; of two
\* consecutive identical samples only the first can raise one, and a sample equal
\* to its predecessor leaves the flag as it is.
C12_ChangeEvents ==
    (~g_currentConfig.isButton /\ g_currentConfig.midiMessageType # "NONE") =>
        \A v \in MonitorAxisValues :
            LET first == WindowProc(g_currentConfig, FlagCleared(PumpState), SampleOf(v))
                again == WindowProc(g_currentConfig, FlagCleared(first), SampleOf(v))
            IN /\ first.cur = v
               /\ first.changed <=> (v # g_currentValue)
               /\ ~again.changed
               /\ again.cur = v
               /\ (v = g_currentValue) =>
                     WindowProc(g_currentConfig, PumpState, SampleOf(v)) = PumpState
               /\ \A w \in MonitorAxisValues :
                     WindowProc(g_currentConfig, FlagCleared(first), SampleOf(w)).changed
                        <=> (w # v)

\* monitoring: after a call evaluated 0, a sample 500 has raised an event
C12_Witness ==
    /\ pc = "monitor"
    /\ ~g_currentConfig.isButton
    /\ Len(calls) >= 1
    /\ g_previousValue = 0
    /\ g_currentValue = 500
    /\ g_valueChanged

\* a step in which the extreme tracker of the hold loop looks at the change flag
HoldConsumes == pc \in HoldStages /\ pc' = pc /\ calib'.iters = calib.iters + 1

\* a step in which the monitoring loop hands the change to SendMidiMessage
MapperConsumes == pc = "monitor" /\ Len(calls') = Len(calls) + 1

\* C13 as written: a change flag that is set is cleared only by a step in which
\* its consumer (the extreme tracker of the hold, or the mapper of the
\* monitoring loop) has consumed it.
C13_ClearedOnlyByConsumer ==
    [][(g_valueChanged /\ ~g_valueChanged') => (HoldConsumes \/ MapperConsumes)]_vars

\* C14 as written: after a button message (Note-On, Note-Off or a button CC) has
\* been sent, g_lastSentMidiValue holds the never-sent value -1.
C14_ButtonResetsLastSent ==
    (g_currentConfig.isButton /\ Len(calls) > 0 /\ Delivered(Len(calls))) =>
        g_lastSentMidiValue = NEVER_SENT

\* the three channel-mode controllers of the reset sequence
ResetControllers == {120, 121, 123}

\* C15 as written: when the monitoring loop has ended on quit with the MIDI port
\* open, CC 120, CC 121 and CC 123 with value 0 have been sent on each of the 16
\* channels, and every one of these messages was sent before any resource (the
\* input window and raw-input registration, the MIDI port, the preparsed data)
\* was released.
C15_ResetBeforeRelease ==
    (pc = "exit" /\ g_quitFlag /\ configLoaded) =>
        LET log == resources.log IN
        /\ \A ch \in 0..(MIDI_CHANNELS - 1) : \A cc \in ResetControllers :
              \E k \in 1..Len(log) : log[k] = Sent(<<176 + ch, cc, 0>>)
        /\ \A j \in 1..Len(log) : \A k \in 1..Len(log) :
              (log[j].event = "send" /\ log[k].event = "release") => j < k

\* a calibration that completed with equal minimum and maximum
DegenerateCalibration ==
    /\ calib.result = "success"
    /\ g_currentConfig.calibrationMinHid = g_currentConfig.calibrationMaxHid

\* the MIDI value of a raw value under such a calibration: a step at the
\* captured value
ExpectedDegenerate(cfg, raw) ==
    IF (raw >= cfg.calibrationMaxHid) # cfg.reverseAxis THEN 127 ELSE 0

\* C16, corrected: a calibration that completes with min == max still sets
\* calibrationDone, and the resulting mapping is a step, not a constant: a raw
\* value at or above the captured value gives 127 and one below it gives 0 (the
\* other way round for a reversed axis); the messages of the monitoring loop
\* carry these values.
C16_DegenerateStep ==
    DegenerateCalibration =>
        LET cfg == g_currentConfig
            m == cfg.calibrationMaxHid
        IN /\ cfg.calibrationDone
           /\ \A raw \in SessionValues \cup {m - 1, m, m + 1, LONG_MIN, LONG_MAX} :
                 AxisMidiValue(cfg, raw) = ExpectedDegenerate(cfg, raw)
           /\ \A k \in 1..Len(calls) :
                 HasMessage(calls[k]) =>
                    calls[k].msgs[1] = << 176 + cfg.midiChannel, cfg.midiNoteOrCCNumber,
                                          ExpectedDegenerate(cfg, calls[k].cur) >>

\* C16 as written: after such a calibration every raw value gives the same
\* MIDI value.
C16_ConstantMapping ==
    DegenerateCalibration =>
        /\ g_currentConfig.calibrationDone
        /\ \A r1 \in SessionValues : \A r2 \in SessionValues :
              AxisMidiValue(g_currentConfig, r1) = AxisMidiValue(g_currentConfig, r2)

\* calibrated with min = max = 500, the monitoring loop has sent two messages
\* with different values
C16_Witness ==
    /\ DegenerateCalibration
    /\ g_currentConfig.calibrationMaxHid = 500
    /\ Len(calls) = 2
    /\ Delivered(1) /\ Delivered(2)
    /\ calls[1].msgs[1][3] # calls[2].msgs[1][3]

\* the stages of PerformCalibration and the order in which one follows another
CalibrationStages == CountdownStages \cup HoldStages

StageOrder ==
    { <<"configure", "countdownMin">>, <<"countdownMin", "holdMin">>,
      <<"holdMin", "countdownMax">>, <<"countdownMax", "holdMax">>,
      <<"holdMax", "save">> }

\* C17: the calibration of an axis goes from the first countdown to the minimum
\* hold, the second countdown and the maximum hold, in this order, and only the
\* maximum hold completes it (calibrationDone); no stage is entered in another
\* way.  A quit found in any stage ends the calibration at once as aborted, and
\* after that no stage is entered and calibrationDone is never set.
C17_StageOrder ==
    /\ [][ /\ (pc' # pc /\ (pc \in CalibrationStages \/ pc' \in CalibrationStages)) =>
                \/ <<pc, pc'>> \in StageOrder /\ ~g_quitFlag'
                \/ pc \in CalibrationStages /\ pc' = "exit" /\ g_quitFlag'
           /\ (pc \in CalibrationStages /\ g_quitFlag') =>
                (pc' = "exit" /\ calib'.result = "aborted")
           /\ (calib'.result = "success" /\ calib.result # "success") =>
                (pc = "holdMax" /\ calib.holdsDone = 1 /\ calib'.holdsDone = 2)
           /\ (calib'.holdsDone # calib.holdsDone) =>
                (pc \in HoldStages /\ pc' # pc /\ calib'.holdsDone = calib.holdsDone + 1)
           /\ pc = "exit" => pc' = "exit"
           /\ calib.result = "aborted" =>
                (calib'.result = "aborted" /\ ~g_currentConfig'.calibrationDone)
       ]_vars
    /\ [](pc \in CalibrationStages => (~g_quitFlag /\ calib.result = "none"))
    /\ [](pc = "holdMin" => calib.holdsDone = 0)
    /\ [](pc \in {"countdownMax", "holdMax"} => calib.holdsDone = 1)
    /\ [](calib.result = "aborted" => (pc = "exit" /\ g_quitFlag))

\* a calibration that went through both holds and completed
C17_Witness ==
    /\ pc = "save"
    /\ calib.result = "success"
    /\ calib.holdsDone = 2
    /\ g_currentConfig.calibrationDone

CCButton(cfg) == cfg.isButton /\ cfg.midiMessageType = "CC"

ExpectedButtonCC(cfg, currentlyPressed) ==
    << 176 + cfg.midiChannel, cfg.midiNoteOrCCNumber,
       IF currentlyPressed THEN cfg.midiValueCCOn ELSE cfg.midiValueCCOff >>

\* C18: for a button mapped to CC, a SendMidiMessage call emits the message
\* [0xB0|channel, CC number, value] exactly when the pressed state differs from
\* the one at the previous call, with value ccOn if the button is now pressed and
\* ccOff if it is now released, and emits nothing otherwise; with ccOn = ccOff
\* the same holds, so a press followed by a release emits the equal value twice.
C18_ButtonCCEdges ==
    CCButton(g_currentConfig) =>
        /\ \A k \in 1..Len(calls) :
            LET wasPressed == EvaluatedBefore(k) # 0
                currentlyPressed == calls[k].cur # 0
            IN calls[k].msgs =
                 IF wasPressed # currentlyPressed
                    THEN << ExpectedButtonCC(g_currentConfig, currentlyPressed) >>
                    ELSE <<>>
        /\ (baseValue = 0 /\ EvaluatedValues = <<0, 1, 1, 0>>) =>
              EmittedMessages = << ExpectedButtonCC(g_currentConfig, TRUE),
                                   ExpectedButtonCC(g_currentConfig, FALSE) >>

\* a CC button with ccOn = ccOff = 64 whose calls evaluated 0,1,1,0: the value
\* 64 was emitted on the press and again on the release
C18_Witness ==
    /\ CCButton(g_currentConfig)
    /\ g_currentConfig.midiValueCCOn = g_currentConfig.midiValueCCOff
    /\ baseValue = 0
    /\ EvaluatedValues = <<0, 1, 1, 0>>
    /\ EmittedMessages = << <<178, 60, 64>>, <<178, 60, 64>> >>

\* statuses with which HidP_GetUsages / HidP_GetUsageValue can return
UsageFound == {"HIDP_STATUS_SUCCESS", "HIDP_STATUS_BUFFER_TOO_SMALL"}
UsageAbsent == {"HIDP_STATUS_USAGE_NOT_FOUND"}
DecodeErrors == {"HIDP_STATUS_INCOMPATIBLE_REPORT_ID", "HIDP_STATUS_INVALID_REPORT_LENGTH"}

\* the sampling state after a report was decoded to v
Stored(st, v) == [st EXCEPT !.cur = v, !.changed = st.changed \/ (v # st.cur)]

\* C19: WindowProc on a report of the selected device: for a button, the usage
\* present gives 1 and the usage absent gives 0; for an axis a successful read
\* gives the value read; the decoded value is stored in g_currentValue, and
\* g_valueChanged is set when it differs from the value stored before.  A report
\* that is not decoded (incompatible report id or another error status) or that
\* comes from another device leaves g_currentValue and g_valueChanged as they
\* were.
C19_DecodeReport ==
    (g_currentConfig.isButton /\ g_currentConfig.midiMessageType # "NONE") =>
        LET button == g_currentConfig
            axis == [g_currentConfig EXCEPT !.isButton = FALSE]
            st == PumpState
        IN
        /\ \A s \in UsageFound :
              WindowProc(button, st, InputMsg("selected", s, 0)) = Stored(st, 1)
        /\ \A s \in UsageAbsent :
              WindowProc(button, st, InputMsg("selected", s, 0)) = Stored(st, 0)
        /\ \A v \in MonitorAxisValues :
              WindowProc(axis, st, InputMsg("selected", "HIDP_STATUS_SUCCESS", v))
                 = Stored(st, v)
        /\ \A s \in DecodeErrors : \A v \in MonitorAxisValues :
              /\ WindowProc(button, st, InputMsg("selected", s, v)) = st
              /\ WindowProc(axis, st, InputMsg("selected", s, v)) = st
        /\ \A s \in UsageFound \cup UsageAbsent \cup DecodeErrors :
           \A v \in MonitorAxisValues :
              /\ WindowProc(button, st, InputMsg("other", s, v)) = st
              /\ WindowProc(axis, st, InputMsg("other", s, v)) = st
        /\ \A st2 \in PumpOutcomes({0, 1}) :
              /\ st2.cur \in {0, 1}
              /\ st2.cur # st.cur => st2.changed
              /\ st.changed => st2.changed

\* monitoring a button: after a call evaluated it released, a report with the
\* usage present has stored 1 and set the flag
C19_Witness ==
    /\ pc = "monitor"
    /\ g_currentConfig.isButton
    /\ Len(calls) >= 1
    /\ g_previousValue = 0
    /\ g_currentValue = 1
    /\ g_valueChanged

\* the loops that pump messages
LoopStages == CalibrationStages \cup {"monitor"}

\* no sleep increment of a countdown, no sampling iteration of a hold and no
\* SendMidiMessage call happens in this step
NoLoopWork ==
    /\ calib'.ms = calib.ms
    /\ calib'.i = calib.i
    /\ calib'.iters = calib.iters
    /\ calib'.extremeValue = calib.extremeValue
    /\ calib'.valueCaptured = calib.valueCaptured
    /\ calib'.holdsDone = calib.holdsDone
    /\ calls' = calls
    /\ g_previousValue' = g_previousValue
    /\ g_lastSentMidiValue' = g_lastSentMidiValue
    /\ midiElapsed' = midiElapsed

\* C20: the iteration whose pump sets g_quitFlag does nothing after the pump: a
\* countdown adds no sleep slice, a hold does no sampling, the monitoring loop
\* does not call SendMidiMessage, and the loop is left at once (the calibration
\* is aborted, the monitoring loop goes to the cleanup); once the flag is set it
\* stays set and no loop does any work again.
C20_QuitObserved ==
    /\ [][ /\ (pc \in LoopStages /\ g_quitFlag') =>
                /\ NoLoopWork
                /\ pc' = IF pc = "monitor" THEN "cleanup" ELSE "exit"
                /\ pc \in CalibrationStages => calib'.result = "aborted"
           /\ g_quitFlag => (g_quitFlag' /\ NoLoopWork /\ pc' \notin LoopStages)
       ]_vars
    /\ [](g_quitFlag => pc \notin LoopStages)

\* a quit found by the pump in the middle of the second countdown, after some
\* slices were slept
C20_Witness ==
    /\ g_quitFlag
    /\ pc = "exit"
    /\ calib.result = "aborted"
    /\ calib.holdsDone = 1
    /\ calib.ms > 0

\* C21: the file is written only in step 6, with the configuration that was set
\* up; for an axis this is after PerformCalibration succeeded, never after it was
\* aborted, so every axis configuration the program saves has calibrationDone.
C21_SavedAfterSetup ==
    /\ [][ /\ disk' # disk =>
                /\ pc = "save"
                /\ disk' = ConfigFile(g_currentConfig)
                /\ calib.result # "aborted"
                /\ ~g_currentConfig.isButton =>
                      (calib.result = "success" /\ g_currentConfig.calibrationDone)
           /\ calib.result = "aborted" => disk' = disk
       ]_vars
    /\ []((disk.wellFormed /\ ~disk.json.isButton) => disk.json.calibrationDone)

\* a new axis mapping was calibrated and saved
C21_Witness ==
    /\ pc = "ready"
    /\ disk.present
    /\ disk.wellFormed
    /\ ~disk.json.isButton
    /\ disk.json.calibrationDone
    /\ calib.result = "success"

\* a call whose message was handed to sendMessage, which threw
SendFailed(c) == HasMessage(c) /\ ~c.ok

\* C22: when sendMessage throws, only that message is lost: the monitoring loop
\* goes on, the tick still clears g_valueChanged, sets g_previousValue to the
\* value evaluated and restarts the interval; nothing is sent again in that tick
\* and g_lastSentMidiValue keeps its value; the next call evaluates its value as
\* any call does, and emits it when it differs from g_lastSentMidiValue.
C22_FailedSendDropped ==
    /\ [][ (calls' # calls /\ SendFailed(calls'[Len(calls')])) =>
              /\ Len(calls') = Len(calls) + 1
              /\ Len(calls'[Len(calls')].msgs) = 1
              /\ pc' = "monitor"
              /\ ~g_quitFlag'
              /\ ~g_valueChanged'
              /\ g_previousValue' = g_currentValue'
              /\ midiElapsed' = 0
              /\ g_lastSentMidiValue' = g_lastSentMidiValue ]_vars
    /\ [][ (calls' # calls /\ Len(calls) > 0 /\ SendFailed(calls[Len(calls)])) =>
              LET midiValue == AxisMidiValue(g_currentConfig, g_currentValue')
                  call == calls'[Len(calls')]
              IN /\ call.cur = g_currentValue'
                 /\ HasMessage(call) <=> midiValue # g_lastSentMidiValue
                 /\ HasMessage(call) => call.msgs[1][3] = midiValue
                 /\ (HasMessage(call) /\ call.ok) => g_lastSentMidiValue' = midiValue ]_vars

\* a send failed and the next call's message was sent
C22_Witness ==
    /\ pc = "monitor"
    /\ \E k \in 1..(Len(calls) - 1) : SendFailed(calls[k]) /\ Delivered(k + 1)

\* the bytes a status byte, a channel and a data byte can be
StatusBytes(cfg) ==
    IF cfg.isButton /\ cfg.midiMessageType = "NOTE_ON_OFF" THEN {128, 144} ELSE {176}
ChannelNibbles == 0..15
DataBytes == 0..127

\* C23: every message SendMidiMessage hands to sendMessage has exactly 3 bytes:
\* a status byte 0x9n or 0x8n (NoteOnOff button) or 0xBn (CC), where n is in
\* 0..15 and is the configured channel whenever that is in 0..15, followed by two
\* data bytes in 0..127; also when the loaded channel, number, velocity, CC
\* values or calibration are outside their documented ranges, and for raw values
\* outside the calibrated range.
C23_WireFormat ==
    \A k \in 1..Len(calls) :
        /\ Len(calls[k].msgs) <= 1
        /\ HasMessage(calls[k]) =>
              LET m == calls[k].msgs[1] IN
              /\ Len(m) = 3
              /\ \E s \in StatusBytes(g_currentConfig) : \E n \in ChannelNibbles :
                    /\ m[1] = s + n
                    /\ g_currentConfig.midiChannel \in ChannelNibbles =>
                          n = g_currentConfig.midiChannel
              /\ m[2] \in DataBytes
              /\ m[3] \in DataBytes

\* a button loaded with channel 16, note 200 and velocity 300 was pressed:
\* Note-On 0x90, 72, 44 was emitted
C23_Witness ==
    /\ g_currentConfig.midiChannel = 16
    /\ g_currentConfig.midiNoteOrCCNumber = 200
    /\ \E k \in 1..Len(calls) : calls[k].msgs = << <<144, 72, 44>> >>

\* C24: after a configuration was loaded its midiSendIntervalMs is positive: it
\* is the value of the file when that is positive, and the default when the file
\* has a non-positive value or none; the interval the monitoring loop uses is
\* this value.
C24_PositiveInterval ==
    /\ configLoaded =>
          LET j == disk.json
              positive == "midiSendIntervalMs" \in DOMAIN j /\ j.midiSendIntervalMs > 0
          IN /\ g_currentConfig.midiSendIntervalMs > 0
             /\ g_currentConfig.midiSendIntervalMs =
                    IF positive THEN j.midiSendIntervalMs ELSE DEFAULT_MIDI_SEND_INTERVAL_MS
    /\ (configLoaded /\ pc \in {"monitor", "cleanup"}) =>
          /\ midiSendInterval > 0
          /\ midiSendInterval = g_currentConfig.midiSendIntervalMs

\* the file has the interval -5: the loop runs with the default interval and has
\* called SendMidiMessage
C24_Witness ==
    /\ configLoaded
    /\ pc = "monitor"
    /\ "midiSendIntervalMs" \in DOMAIN disk.json
    /\ disk.json.midiSendIntervalMs < 0
    /\ midiSendInterval = DEFAULT_MIDI_SEND_INTERVAL_MS
    /\ Len(calls) >= 1

\* what makes a load fail
LoadFaults == {"not_open", "parse_error", "not_object", "type_error"}

FaultyFile(d) ==
    \/ d.fault \in LoadFaults
    \/ "isButton" \notin DOMAIN d.json
    \/ "midiMessageType" \notin DOMAIN d.json
    \/ "midiChannel" \notin DOMAIN d.json
    \/ "midiNoteOrCCNumber" \notin DOMAIN d.json

\* C25: when the file chosen at start-up cannot be opened, is not JSON, is not a
\* JSON object, has a value of the wrong type or lacks an essential field, the
\* load fails without ending the program through a quit: the configuration is
\* the default one, configLoaded stays false and main goes on to the interactive
\* set-up of a new configuration (or returns, if standard input has ended at
\* its "Press Enter" prompt).  Only a file without such a fault is ever loaded.
C25_LoadFailsCleanly ==
    /\ [][ (pc = "start" /\ pc' # "start" /\ FaultyFile(disk)) =>
              /\ ~configLoaded'
              /\ g_currentConfig' = DefaultConfig
              /\ ~g_quitFlag'
              /\ pc' \in {"configure", "exit"}
              /\ pc' = "configure" => resources' = Acquired ]_vars
    /\ [](configLoaded => ~FaultyFile(disk))
    /\ []((pc = "configure" /\ FaultyFile(disk)) => ENABLED ConfigureButton)

\* the file is not a JSON object; a new button mapping was set up
\* interactively and is being monitored
C25_Witness ==
    /\ disk.fault = "not_object"
    /\ ~configLoaded
    /\ pc = "monitor"
    /\ g_currentConfig.isButton
    /\ Len(calls) >= 1

\* C26: PerformCalibration with a button selected returns success at once and
\* changes nothing: the calibration fields and the rest of the mapping, the
\* sampling state (g_currentValue, g_previousValue, g_valueChanged), the quit
\* flag and the locals of a calibration are as before.
C26_ButtonCalibrationNoOp ==
    [][ (pc = "calibrate" /\ g_currentConfig.isButton /\ pc' # pc) =>
          /\ pc' = "calibrated"
          /\ calib'.result = "success"
          /\ [calib' EXCEPT !.result = calib.result] = calib
          /\ g_currentConfig'.calibrationMinHid = g_currentConfig.calibrationMinHid
          /\ g_currentConfig'.calibrationMaxHid = g_currentConfig.calibrationMaxHid
          /\ g_currentConfig'.calibrationDone = g_currentConfig.calibrationDone
          /\ g_currentConfig' = g_currentConfig
          /\ g_currentValue' = g_currentValue
          /\ g_previousValue' = g_previousValue
          /\ g_valueChanged' = g_valueChanged
          /\ g_lastSentMidiValue' = g_lastSentMidiValue
          /\ g_quitFlag' = g_quitFlag ]_vars

\* the call has returned for a button that is pressed, with a change flagged and
\* a mapping that was never calibrated
C26_Witness ==
    /\ pc = "calibrated"
    /\ calib.result = "success"
    /\ g_currentConfig.isButton
    /\ ~g_currentConfig.calibrationDone
    /\ g_currentValue = 1
    /\ g_valueChanged

\* a tick of the monitoring loop that did not end on quit
LoopTick == pc = "monitor" /\ pc' = "monitor" /\ ~g_quitFlag'

\* the time since g_lastMidiSendTime that the clock reading of this tick can show
TickReadings == { Min(midiElapsed + d, midiSendInterval) : d \in TickSteps }

\* C27: in a tick of the monitoring loop SendMidiMessage is called exactly when,
\* after the pump, g_valueChanged is set and at least the send interval has
\* passed since g_lastMidiSendTime.  When it is called, g_previousValue becomes
\* g_currentValue, g_lastMidiSendTime becomes the tick's clock reading and the
\* flag is cleared.  When it is not called, the part of the tick after the pump
\* leaves g_previousValue, g_lastMidiSendTime, g_lastSentMidiValue and the flag
\* as they are (the flag as the pump left it: never cleared).
C27_TickFrame ==
    /\ [][ (LoopTick /\ calls' # calls) =>
              /\ Len(calls') = Len(calls) + 1
              /\ calls'[Len(calls')].changed
              /\ calls'[Len(calls')].elapsed \in TickReadings
              /\ calls'[Len(calls')].elapsed >= midiSendInterval
              /\ calls'[Len(calls')].cur = g_currentValue'
              /\ g_previousValue' = g_currentValue'
              /\ midiElapsed' = 0
              /\ ~g_valueChanged' ]_vars
    /\ [][ (LoopTick /\ calls' = calls) =>
              /\ ~(g_valueChanged' /\ midiElapsed' >= midiSendInterval)
              /\ midiElapsed' \in TickReadings
              /\ g_previousValue' = g_previousValue
              /\ g_lastSentMidiValue' = g_lastSentMidiValue
              /\ g_valueChanged => g_valueChanged'
              /\ (g_currentValue' # g_currentValue) => g_valueChanged' ]_vars

\* after two calls a tick found a change but the interval had not passed: the
\* flag is still set and g_previousValue is the value of the last call
C27_Witness ==
    /\ pc = "monitor"
    /\ Len(calls) = 2
    /\ g_valueChanged
    /\ midiElapsed > 0
    /\ midiElapsed < midiSendInterval
    /\ g_previousValue = calls[2].cur
    /\ g_previousValue # g_currentValue

\* C28: while an axis is monitored, g_lastSentMidiValue changes only in a call of
\* SendMidiMessage that handed a CC message to sendMessage which returned
\* normally, and it then equals the value byte of that message.  A call emits
\* nothing when the axis is not a calibrated CC mapping or when the computed
\* value equals g_lastSentMidiValue; such a call, and a call whose sendMessage
\* threw, leave g_lastSentMidiValue as it was.
C28_AxisLastSent ==
    [][ (pc = "monitor" /\ ~g_currentConfig.isButton) =>
          LET call == calls'[Len(calls')]
              sent == calls' # calls /\ HasMessage(call) /\ call.ok
          IN /\ (g_lastSentMidiValue' # g_lastSentMidiValue) => sent
             /\ sent =>
                   /\ call.msgs[1][1] = 176 + (g_currentConfig.midiChannel % 16)
                   /\ g_lastSentMidiValue' = call.msgs[1][3]
                   /\ g_lastSentMidiValue' = AxisMidiValue(g_currentConfig, call.cur)
             /\ (calls' # calls) =>
                   (HasMessage(call) <=>
                       /\ g_currentConfig.midiMessageType = "CC"
                       /\ g_currentConfig.calibrationDone
                       /\ AxisMidiValue(g_currentConfig, call.cur) # g_lastSentMidiValue)
             /\ (calls' # calls /\ ~sent) => g_lastSentMidiValue' = g_lastSentMidiValue
      ]_vars

\* a calibrated axis after a call that sent a value, a call that emitted nothing
\* and a call whose send failed: g_lastSentMidiValue is the value of the first
C28_Witness ==
    /\ pc = "monitor"
    /\ ~g_currentConfig.isButton
    /\ g_currentConfig.calibrationDone
    /\ Len(calls) = 3
    /\ HasMessage(calls[1]) /\ calls[1].ok
    /\ ~HasMessage(calls[2])
    /\ HasMessage(calls[3]) /\ ~calls[3].ok
    /\ calls[3].msgs[1][3] # calls[1].msgs[1][3]
    /\ g_lastSentMidiValue = calls[1].msgs[1][3]

\* C29: every 100 ms slice of a countdown starts with the pump: a value that
\* changes during a countdown is a decoded report value and sets the flag; up to
\* the last slice any report of the device can still reach g_currentValue and
\* become the value the hold starts with; and when the hold starts,
\* initialValue is g_currentValue as the last pump of the countdown left it.
C29_CountdownDecodes ==
    /\ []((pc \in HoldStages /\ calib.iters = 0) => calib.initialValue = g_currentValue)
    /\ [][ (pc \in CountdownStages /\ g_currentValue' # g_currentValue) =>
              /\ g_currentValue' \in CalibAxisValues
              /\ (pc' \in CountdownStages => g_valueChanged')
              /\ (pc' \in HoldStages => calib'.initialValue = g_currentValue') ]_vars
    /\ []((pc \in CountdownStages /\ calib.i = 1 /\ calib.ms = COUNTDOWN_SLICES - 1) =>
            \A v \in CalibAxisValues :
                ENABLED (CountdownStepAxis /\ pc' \in HoldStages
                            /\ calib'.initialValue = v))

\* the hold for the maximum starts with a value decoded during the second
\* countdown: it is neither the value the first hold started with nor the
\* minimum that hold captured
C29_Witness ==
    /\ pc = "holdMax"
    /\ calib.iters = 0
    /\ calib.holdsDone = 1
    /\ calib.initialValue = 800
    /\ calib.capturedMin = 200
    /\ g_currentValue = 800

\* the positions in the log at which a resource was released
Releases(what) == { k \in DOMAIN resources.log : resources.log[k] = Released(what) }

\* the stages whose pump hands reports to WindowProc
DecodingStages == CountdownStages \cup HoldStages \cup {"monitor"}

\* C30: on every path the preparsed data is freed at most once; it is freed only
\* when the input window with its raw-input registration is gone (its release,
\* if there was one, comes earlier in program order); a window never exists
\* without the preparsed data; and wherever reports are decoded both exist.
C30_PreparsedDataOutlivesWindow ==
    /\ Cardinality(Releases("preparsedData")) <= 1
    /\ Cardinality(Releases("window")) <= 1
    /\ \A f \in Releases("preparsedData") : \A w \in Releases("window") : w < f
    /\ resources.window => resources.preparsedData
    /\ (Releases("preparsedData") # {}) => (~resources.window /\ ~resources.preparsedData)
    /\ (pc \in DecodingStages) =>
          (resources.window /\ resources.preparsedData /\ Releases("preparsedData") = {})
    /\ (pc = "exit") => ~resources.window

\* the program has ended after monitoring: reports were decoded, the window was
\* cleaned up and then the preparsed data was freed
C30_Witness ==
    /\ pc = "exit"
    /\ Len(calls) > 0
    /\ Releases("window") # {}
    /\ Releases("preparsedData") # {}
    /\ ~resources.window
    /\ ~resources.preparsedData

\* the status bytes of the two note messages of a mapping
NoteOnStatus(cfg) == 144 + (cfg.midiChannel % 16)
NoteOffStatus(cfg) == 128 + (cfg.midiChannel % 16)

\* C31: in a session of a button mapped to NoteOnOff, the first note message
\* handed to sendMessage is a Note-On, and every Note-Off comes directly after a
\* Note-On with the same note number on the same channel, whether the first
\* report of the session shows the button pressed or released.
C31_NoteOffAfterNoteOn ==
    NoteOnOffButton(g_currentConfig) =>
        LET m == EmittedMessages IN
        /\ \A k \in 1..Len(m) : m[k][1] \in {NoteOnStatus(g_currentConfig),
                                              NoteOffStatus(g_currentConfig)}
        /\ (Len(m) > 0) => m[1][1] = NoteOnStatus(g_currentConfig)
        /\ \A k \in 1..Len(m) :
              (m[k][1] = NoteOffStatus(g_currentConfig)) =>
                  /\ k > 1
                  /\ m[k - 1][1] = NoteOnStatus(g_currentConfig)
                  /\ m[k - 1][2] = m[k][2]

\* the button was held when monitoring started: the first pump decoded "pressed",
\* the first call emitted the Note-On, a later call the Note-Off
C31_Witness ==
    /\ NoteOnOffButton(g_currentConfig)
    /\ pc = "monitor"
    /\ Len(calls) >= 2
    /\ calls[1].cur = 1
    /\ Len(EmittedMessages) = 2
    /\ EmittedMessages[1][1] = NoteOnStatus(g_currentConfig)
    /\ EmittedMessages[2][1] = NoteOffStatus(g_currentConfig)

\* the note messages of the calls whose sendMessage returned normally
DeliveredMessages ==
    LET sel == SelectSeq(calls, LAMBDA c : HasMessage(c) /\ c.ok)
    IN [k \in 1..Len(sel) |-> sel[k].msgs[1]]

Alternates(m) == \A k \in 1..(Len(m) - 1) : m[k][1] # m[k + 1][1]

\* C32: in a session of a button mapped to NoteOnOff the note messages handed
\* to sendMessage alternate between Note-On and Note-Off; when no send failed
\* these are the messages the port received, so no two Note-Ons and no two
\* Note-Offs follow each other, whatever the pumps decoded and whenever the
\* ticks ran.
C32_NotesAlternate ==
    NoteOnOffButton(g_currentConfig) =>
        /\ Alternates(EmittedMessages)
        /\ (\A k \in 1..Len(calls) : calls[k].ok) =>
              /\ DeliveredMessages = EmittedMessages
              /\ Alternates(DeliveredMessages)
              /\ \A k \in 1..Len(DeliveredMessages) :
                    DeliveredMessages[k][1] = IF k % 2 = 1
                                                 THEN NoteOnStatus(g_currentConfig)
                                                 ELSE NoteOffStatus(g_currentConfig)

\* four note messages in five calls, none failed: On, Off, On, Off
C32_Witness ==
    /\ NoteOnOffButton(g_currentConfig)
    /\ \A k \in 1..Len(calls) : calls[k].ok
    /\ Len(DeliveredMessages) = 4
    /\ DeliveredMessages[1][1] = NoteOnStatus(g_currentConfig)
    /\ DeliveredMessages[4][1] = NoteOffStatus(g_currentConfig)

\* call k found the button in the pressed state the previous call had seen,
\* although a report had changed the value in between: a press and release (or
\* release and press) fell between the two calls
PulseBefore(k) ==
    /\ k > 1
    /\ calls[k].changed
    /\ (calls[k].cur # 0) = (calls[k - 1].cur # 0)

\* C33: for a button, a call of SendMidiMessage that follows a pulse - the value
\* changed and changed back since the previous call, inside one pump or over
\* several ticks of one interval - hands nothing to sendMessage and leaves
\* g_lastSentMidiValue alone: the call compares only the pressed state it finds
\* with g_previousValue.
C33_PulseSilent ==
    /\ [](g_currentConfig.isButton =>
            \A k \in 1..Len(calls) : PulseBefore(k) => calls[k].msgs = <<>>)
    /\ [][ (pc = "monitor" /\ g_currentConfig.isButton /\ calls' # calls
              /\ (g_currentValue' # 0) = (g_previousValue # 0)) =>
              /\ calls'[Len(calls')].msgs = <<>>
              /\ g_lastSentMidiValue' = g_lastSentMidiValue
              /\ g_previousValue' = g_currentValue'
              /\ ~g_valueChanged' ]_vars

\* a session in which the second call followed a pulse and emitted nothing, and
\* the third call emitted the next real edge
C33_Witness ==
    /\ pc = "monitor"
    /\ g_currentConfig.isButton
    /\ Len(calls) = 3
    /\ PulseBefore(2)
    /\ calls[2].msgs = <<>>
    /\ calls[3].msgs # <<>>

\* a step in which no report changed the raw value
NoInputChange == g_currentValue' = g_currentValue /\ (g_valueChanged' => g_valueChanged)

AllSendsOk == \A k \in 1..Len(calls) : calls[k].ok

\* the receiver holds the value of the axis and nothing is pending
Settled ==
    /\ ~g_valueChanged
    /\ g_lastSentMidiValue = AxisMidiValue(g_currentConfig, g_currentValue)

\* C34: a calibrated axis is monitored, no send fails and quit is never
\* signalled.  If from some point on no report changes the raw value, then from
\* some point on g_valueChanged is clear and g_lastSentMidiValue is the MIDI
\* value of g_currentValue, for good.
C34_AxisSettles ==
    ( /\ <>(pc = "monitor")
      /\ [](~g_quitFlag)
      /\ []AllSendsOk
      /\ <>[][NoInputChange]_vars )
    => <>[](pc = "monitor" /\ CalibratedAxis(g_currentConfig) /\ Settled)

\* the axis has settled on a value that arrived while the interval of the
\* previous call was still running
C34_Witness ==
    /\ pc = "monitor"
    /\ CalibratedAxis(g_currentConfig)
    /\ midiSendInterval = 10
    /\ AllSendsOk
    /\ Len(calls) = 2
    /\ calls[2].cur # calls[1].cur
    /\ HasMessage(calls[1]) /\ HasMessage(calls[2])
    /\ Settled

\* no call up to call k has seen the button in another pressed state than the
\* one monitoring started with
NoEdgeUpTo(k) == \A j \in 1..k : (calls[j].cur # 0) = (baseValue # 0)

\* C35: monitoring starts with g_valueChanged set, g_lastSentMidiValue = -1,
\* g_previousValue = g_currentValue and the interval already elapsed, so the
\* first iteration that is not ended by quit calls SendMidiMessage.  For a
\* calibrated axis that call hands over exactly one CC with the MIDI value of
\* the raw value it reads, changed or not; for a button the calls hand over
\* nothing as long as the pressed state is the one monitoring started with.
C35_FirstTick ==
    /\ [][ (pc = "ready" /\ pc' = "monitor") =>
              /\ g_valueChanged'
              /\ g_lastSentMidiValue' = NEVER_SENT
              /\ g_previousValue' = g_currentValue'
              /\ midiSendInterval' > 0
              /\ midiElapsed' >= midiSendInterval' ]_vars
    /\ []((pc = "monitor" /\ calls = <<>>) =>
              (g_valueChanged /\ midiElapsed >= midiSendInterval))
    /\ [][ (pc = "monitor" /\ calls = <<>> /\ ~g_quitFlag') =>
              (Len(calls') = 1 /\ calls'[1].cur = g_currentValue') ]_vars
    /\ []((calls # <<>> /\ CalibratedAxis(g_currentConfig)) =>
              calls[1].msgs = << << 176 + (g_currentConfig.midiChannel % 16),
                                    g_currentConfig.midiNoteOrCCNumber % 128,
                                    AxisMidiValue(g_currentConfig, calls[1].cur) >> >>)
    /\ [](g_currentConfig.isButton =>
              \A k \in 1..Len(calls) : NoEdgeUpTo(k) => calls[k].msgs = <<>>)

\* a calibrated axis whose first call read the value monitoring started with
\* and handed over its CC
C35_Witness ==
    /\ pc = "monitor"
    /\ CalibratedAxis(g_currentConfig)
    /\ Len(calls) = 1
    /\ calls[1].cur = baseValue
    /\ Len(calls[1].msgs) = 1
    /\ calls[1].ok
    /\ g_lastSentMidiValue = AxisMidiValue(g_currentConfig, baseValue)

\* raw values around the ends and the middle of the calibrated range of cfg,
\* and the ends of LONG
ProbeValues(cfg) ==
    LET lo == cfg.calibrationMinHid
        hi == cfg.calibrationMaxHid
        mid == (lo \div 2) + (hi \div 2)
    IN {LONG_MIN, LONG_MAX, lo, hi, mid, mid + 1, lo + 1, hi - 1}
         \cup (IF lo > LONG_MIN THEN {lo - 1} ELSE {})
         \cup (IF hi < LONG_MAX THEN {hi + 1} ELSE {})
         \cup MappingValues

ProperRange(cfg) == CalibratedAxis(cfg) /\ cfg.calibrationMinHid < cfg.calibrationMaxHid

\* C36: for a calibrated range with calibrationMinHid < calibrationMaxHid the
\* MIDI value of every raw value is in 0..127; a raw value at or below the
\* minimum gives 0 and one at or above the maximum gives 127 (127 and 0 when the
\* axis is reversed); a larger raw value never gives a smaller MIDI value (never
\* a larger one when reversed); and every CC sent carries the MIDI value of the
\* raw value its call read.
C36_MappingMonotone ==
    ProperRange(g_currentConfig) =>
        LET cfg == g_currentConfig
            low == IF cfg.reverseAxis THEN 127 ELSE 0
            high == IF cfg.reverseAxis THEN 0 ELSE 127
        IN
        /\ \A raw \in ProbeValues(cfg) :
              /\ AxisMidiValue(cfg, raw) \in 0..127
              /\ (raw <= cfg.calibrationMinHid) => AxisMidiValue(cfg, raw) = low
              /\ (raw >= cfg.calibrationMaxHid) => AxisMidiValue(cfg, raw) = high
        /\ \A r1 \in ProbeValues(cfg) : \A r2 \in ProbeValues(cfg) :
              (r1 <= r2) =>
                  IF cfg.reverseAxis
                     THEN AxisMidiValue(cfg, r1) >= AxisMidiValue(cfg, r2)
                     ELSE AxisMidiValue(cfg, r1) <= AxisMidiValue(cfg, r2)
        /\ \A k \in 1..Len(calls) :
              HasMessage(calls[k]) =>
                  /\ calls[k].msgs[1][3] = AxisMidiValue(cfg, calls[k].cur)
                  /\ calls[k].msgs[1][3] \in 0..127

\* a forward axis sent the value of a raw value inside its range and then the
\* larger value of a larger raw value
C36_Witness ==
    /\ ProperRange(g_currentConfig)
    /\ ~g_currentConfig.reverseAxis
    /\ Len(calls) = 2
    /\ HasMessage(calls[1]) /\ HasMessage(calls[2])
    /\ calls[1].cur < calls[2].cur
    /\ calls[1].msgs[1][3] > 0
    /\ calls[1].msgs[1][3] < calls[2].msgs[1][3]
    /\ calls[2].msgs[1][3] < 127

\* the mapping of cfg in one direction
Directed(cfg, rev) == [cfg EXCEPT !.reverseAxis = rev]

\* the calibrated range of cfg and two ranges that are not proper: min = max
\* and min > max
ReversalConfigs(cfg) ==
    { cfg,
      [cfg EXCEPT !.calibrationMinHid = 500, !.calibrationMaxHid = 500],
      [cfg EXCEPT !.calibrationMinHid = 500, !.calibrationMaxHid = -1] }

\* normalizedValue * 127.0 lies exactly halfway between two integers
HalfwayValue(n) == (254 * n.num + n.den) % (2 * n.den) = 0

LastCallSilent == Len(calls) > 0 /\ ~HasMessage(calls[Len(calls)])

C39_NoLostChange ==
    /\ []((pc = "monitor") => (g_valueChanged \/ g_previousValue = g_currentValue))
    /\ [][ (pc = "monitor" /\ pc' = "monitor" /\ g_currentValue' # g_currentValue) =>
              \/ g_valueChanged' /\ calls' = calls
              \/ /\ Len(calls') = Len(calls) + 1
                 /\ calls'[Len(calls')].cur = g_currentValue'
                 /\ calls'[Len(calls')].changed
                 /\ g_previousValue' = g_currentValue' ]_vars
    /\ [][ (pc = "monitor" /\ g_valueChanged /\ ~g_valueChanged') =>
              /\ Len(calls') = Len(calls) + 1
              /\ calls'[Len(calls')].cur = g_currentValue'
              /\ g_previousValue' = g_currentValue' ]_vars

\* after a call a report changed the value and the interval is still running:
\* the flag is set, g_previousValue is the value the call read
C39_Witness ==
    /\ pc = "monitor"
    /\ Len(calls) > 0
    /\ g_valueChanged
    /\ g_previousValue = calls[Len(calls)].cur
    /\ g_previousValue # g_currentValue

=============================================================================
